---- MODULE Spec2Model ----
(***************************************************************************)
(* Arbitrage detection engine of the sports arbitrage monitor:             *)
(* ArbitrageCalculator (src/src/calculators/arbitrage.py), DriftTracker    *)
(* and RiskReporter (src/src/utils/advanced_monitors.py),                  *)
(* BookmakerClassifier (src/src/utils/bookmaker_classifier.py), the scan   *)
(* of one event in ArbitrageMonitor (src/main.py), the alert cache of      *)
(* DiscordNotifier (src/src/notifiers/discord_webhook.py), the manual scan *)
(* burst of ManualScanHandler (src/src/utils/discord_commands.py) and the  *)
(* settings they read (src/config/settings.py).                            *)
(*                                                                         *)
(* Numbers.  Prices, ROI and stakes are Python floats in the source.  They *)
(* are modelled as exact rationals <<n, d>> in lowest terms with d > 0, so *)
(* every arithmetic result below is the real-number value of the source    *)
(* expression; the last-bit rounding of IEEE doubles is not represented.   *)
(* A Python division whose divisor is zero raises ZeroDivisionError; the   *)
(* operators that divide return that outcome explicitly.                   *)
(*                                                                         *)
(* Strings.  Bookmaker keys and sport keys are sequences of one-character  *)
(* strings, so that split('_')[0], lower() and `in` are computed.          *)
(***************************************************************************)
EXTENDS Integers, Sequences, FiniteSets, TLC

VARIABLES sharp_prices, smart_rounding, previous_odds, sent, call, ret,
          webhook_url, recent_alerts, now, is_scanning, threads

vars == <<sharp_prices, smart_rounding, previous_odds, sent, call, ret,
         webhook_url, recent_alerts, now, is_scanning, threads>>

----------------------------------------------------------------------------
(* Bounds of the model.                                                    *)

\* prices are enumerated on a grid of 0.05; MaxTick ticks = 4.00
MaxTick == 80
\* non-positive prices -NegTicks * 0.05 .. 0 are enumerated too
NegTicks == 2
\* the three-price inputs use every TickStride-th tick of the grid
TickStride == 8
\* raw stake amounts 0, 0.5, 1, ... MaxAmount handed to the rounding
MaxAmount == 1300
\* quotes of one event handed to find_arbitrage_opportunities
MaxQuotes == 4

----------------------------------------------------------------------------
(* Float arithmetic as exact rationals.                                    *)

Abs(x) == IF x < 0 THEN 0 - x ELSE x

RECURSIVE GCD(_, _)
GCD(a, b) == IF b = 0 THEN a ELSE GCD(b, a % b)

\* lowest terms, positive denominator
Norm(n, d) ==
    LET g == GCD(Abs(n), Abs(d))
        s == IF d < 0 THEN 0 - 1 ELSE 1
    IN  <<(s * n) \div g, (s * d) \div g>>

Rat(i) == <<i, 1>>

RatAdd(x, y) ==
    LET g == GCD(x[2], y[2])
    IN  Norm(x[1] * (y[2] \div g) + y[1] * (x[2] \div g), (x[2] \div g) * y[2])

RatNeg(x) == <<0 - x[1], x[2]>>

RatSub(x, y) == RatAdd(x, RatNeg(y))

RatMul(x, y) ==
    LET g1 == GCD(Abs(x[1]), y[2])
        g2 == GCD(Abs(y[1]), x[2])
    IN  Norm((x[1] \div g1) * (y[1] \div g2), (x[2] \div g2) * (y[2] \div g1))

\* x / y for y # 0; the callers decide what a zero divisor does
RatDiv(x, y) == RatMul(x, Norm(y[2], y[1]))

RatLT(x, y) == x[1] * y[2] < y[1] * x[2]

RatLE(x, y) == x[1] * y[2] <= y[1] * x[2]

\* Python 3 round(x): nearest integer, a tie goes to the even one
Round(x) ==
    LET q == x[1] \div x[2]
        r == x[1] % x[2]
    IN  IF 2 * r < x[2] THEN q
        ELSE IF 2 * r > x[2] THEN q + 1
        ELSE IF q % 2 = 0 THEN q ELSE q + 1

\* the price at tick k of the 0.05 grid
Odds(k) == Norm(5 * k, 100)

----------------------------------------------------------------------------
(* config/settings.py                                                      *)

MAX_ROI_THRESHOLD == Rat(15)

MIN_ROI_THRESHOLD == Norm(15, 10)

DEFAULT_TOTAL_INVESTMENT == 1000

\* the value settings.py gives ENABLE_SMART_ROUNDING
DefaultSmartRounding == TRUE

----------------------------------------------------------------------------
(* ArbitrageCalculator: the arbitrage tests.                               *)

Zero == Rat(0)

One == Rat(1)

\* what a detect_* call yields: the returned pair, or an escaping exception
DetectReturn(is_arb, roi) == [is_arb |-> is_arb, roi |-> roi, raised |-> FALSE]

DetectRaise == [is_arb |-> FALSE, roi |-> Zero, raised |-> TRUE]

\* as detect_two_way_arbitrage, the arbitrage test being <= 1.0 in place of < 1.0
detect_two_way_arbitrage_le(odds_a, odds_b) ==
    IF odds_a[1] <= 0 \/ odds_b[1] <= 0
    THEN DetectReturn(FALSE, Zero)
    ELSE IF odds_a[1] = 0 \/ odds_b[1] = 0
    THEN DetectRaise
    ELSE LET implied_total == RatAdd(RatDiv(One, odds_a), RatDiv(One, odds_b))
         IN  IF implied_total = Zero
             THEN DetectReturn(FALSE, Zero)
             ELSE IF RatLE(implied_total, One)
             THEN DetectReturn(TRUE,
                     RatMul(RatSub(RatDiv(One, implied_total), One), Rat(100)))
             ELSE DetectReturn(FALSE, Zero)

\* as detect_two_way_arbitrage, the validity guard being < 0 in place of <= 0
detect_two_way_arbitrage_guard(odds_a, odds_b) ==
    IF odds_a[1] < 0 \/ odds_b[1] < 0
    THEN DetectReturn(FALSE, Zero)
    ELSE IF odds_a[1] = 0 \/ odds_b[1] = 0
    THEN DetectRaise
    ELSE LET implied_total == RatAdd(RatDiv(One, odds_a), RatDiv(One, odds_b))
         IN  IF implied_total = Zero
             THEN DetectReturn(FALSE, Zero)
             ELSE IF RatLT(implied_total, One)
             THEN DetectReturn(TRUE,
                     RatMul(RatSub(RatDiv(One, implied_total), One), Rat(100)))
             ELSE DetectReturn(FALSE, Zero)

detect_two_way_arbitrage(odds_a, odds_b) ==
    IF odds_a[1] <= 0 \/ odds_b[1] <= 0
    THEN DetectReturn(FALSE, Zero)
    ELSE IF odds_a[1] = 0 \/ odds_b[1] = 0
    THEN DetectRaise                       \* 1 / odds with odds = 0
    ELSE LET implied_total == RatAdd(RatDiv(One, odds_a), RatDiv(One, odds_b))
         IN  IF implied_total = Zero
             THEN DetectReturn(FALSE, Zero)
             ELSE IF RatLT(implied_total, One)
             THEN DetectReturn(TRUE,
                     RatMul(RatSub(RatDiv(One, implied_total), One), Rat(100)))
             ELSE DetectReturn(FALSE, Zero)

\* as detect_three_way_arbitrage, the draw price left out of implied_total
detect_three_way_arbitrage_nodraw(odds_1, odds_x, odds_2) ==
    IF odds_1[1] <= 0 \/ odds_x[1] <= 0 \/ odds_2[1] <= 0
    THEN DetectReturn(FALSE, Zero)
    ELSE IF odds_1[1] = 0 \/ odds_x[1] = 0 \/ odds_2[1] = 0
    THEN DetectRaise
    ELSE LET implied_total == RatAdd(RatDiv(One, odds_1), RatDiv(One, odds_2))
         IN  IF implied_total = Zero
             THEN DetectReturn(FALSE, Zero)
             ELSE IF RatLT(implied_total, One)
             THEN DetectReturn(TRUE,
                     RatMul(RatSub(RatDiv(One, implied_total), One), Rat(100)))
             ELSE DetectReturn(FALSE, Zero)

detect_three_way_arbitrage(odds_1, odds_x, odds_2) ==
    IF odds_1[1] <= 0 \/ odds_x[1] <= 0 \/ odds_2[1] <= 0
    THEN DetectReturn(FALSE, Zero)
    ELSE IF odds_1[1] = 0 \/ odds_x[1] = 0 \/ odds_2[1] = 0
    THEN DetectRaise                       \* 1 / odds with odds = 0
    ELSE LET implied_total ==
                 RatAdd(RatAdd(RatDiv(One, odds_1), RatDiv(One, odds_x)),
                        RatDiv(One, odds_2))
         IN  IF implied_total = Zero
             THEN DetectReturn(FALSE, Zero)
             ELSE IF RatLT(implied_total, One)
             THEN DetectReturn(TRUE,
                     RatMul(RatSub(RatDiv(One, implied_total), One), Rat(100)))
             ELSE DetectReturn(FALSE, Zero)

----------------------------------------------------------------------------
(* ArbitrageCalculator: stake allocation and rounding.                     *)

\* round(amount / step) * step
RoundTo(amount, step) == Round(RatDiv(amount, Rat(step))) * step

\* as _smart_round, the middle tier rounding to 100 in place of 50
_smart_round_tier(amount) ==
    IF RatLT(Rat(1000), amount) THEN RoundTo(amount, 100)
    ELSE IF RatLT(Rat(100), amount) THEN RoundTo(amount, 100)
    ELSE RoundTo(amount, 5)

_smart_round(amount) ==
    IF RatLT(Rat(1000), amount) THEN RoundTo(amount, 100)
    ELSE IF RatLT(Rat(100), amount) THEN RoundTo(amount, 50)
    ELSE RoundTo(amount, 5)

\* lines 113-117: the rounding of one stake under the configured mode
RoundStake(smart, stake) ==
    IF smart THEN _smart_round(stake) ELSE RoundTo(stake, 5)

RECURSIVE SumSeq(_)
SumSeq(s) == IF s = <<>> THEN Zero ELSE RatAdd(Head(s), SumSeq(Tail(s)))

\* as calculate_stakes, a stake weighted by its price in place of 1 / price
calculate_stakes_weight(smart, total_investment, odds_list) ==
    IF \E i \in DOMAIN odds_list : odds_list[i][1] = 0
    THEN [stakes |-> <<>>, raw |-> <<>>, raised |-> TRUE]
    ELSE LET odds_sum == SumSeq(odds_list)
         IN  IF odds_sum = Zero
             THEN [stakes |-> <<>>, raw |-> <<>>, raised |-> TRUE]
             ELSE LET raw == [i \in DOMAIN odds_list |->
                                RatDiv(RatMul(Rat(total_investment), odds_list[i]),
                                       odds_sum)]
                  IN  [stakes |-> [i \in DOMAIN odds_list |->
                                      RoundStake(smart, raw[i])],
                       raw |-> raw,
                       raised |-> FALSE]

\* raw: the local `stake` of each iteration, before its rounding
calculate_stakes(smart, total_investment, odds_list) ==
    IF \E i \in DOMAIN odds_list : odds_list[i][1] = 0
    THEN [stakes |-> <<>>, raw |-> <<>>, raised |-> TRUE]
    ELSE LET inverse_odds_sum ==
                 SumSeq([i \in DOMAIN odds_list |-> RatDiv(One, odds_list[i])])
         IN  IF inverse_odds_sum = Zero
             THEN [stakes |-> <<>>, raw |-> <<>>, raised |-> TRUE]
             ELSE LET raw == [i \in DOMAIN odds_list |->
                                RatDiv(RatMul(Rat(total_investment),
                                              RatDiv(One, odds_list[i])),
                                       inverse_odds_sum)]
                  IN  [stakes |-> [i \in DOMAIN odds_list |->
                                      RoundStake(smart, raw[i])],
                       raw |-> raw,
                       raised |-> FALSE]

----------------------------------------------------------------------------
(* Strings as sequences of characters.                                     *)

UpperChars == <<"A", "B", "C", "D", "E", "F", "G", "H", "I", "J", "K", "L", "M",
                "N", "O", "P", "Q", "R", "S", "T", "U", "V", "W", "X", "Y", "Z">>

LowerChars == <<"a", "b", "c", "d", "e", "f", "g", "h", "i", "j", "k", "l", "m",
                "n", "o", "p", "q", "r", "s", "t", "u", "v", "w", "x", "y", "z">>

\* the lower-case letter of each upper-case letter
LowerMap ==
    [c \in {UpperChars[j] : j \in DOMAIN UpperChars} |->
        LowerChars[CHOOSE j \in DOMAIN UpperChars : UpperChars[j] = c]]

\* str.lower()
Lower(s) ==
    [i \in DOMAIN s |-> IF s[i] \in DOMAIN LowerMap THEN LowerMap[s[i]] ELSE s[i]]

\* s.split('_')[0]: the part before the first underscore
SplitFirst(s) ==
    IF \E i \in DOMAIN s : s[i] = "_"
    THEN SubSeq(s, 1, (CHOOSE i \in DOMAIN s :
                          s[i] = "_" /\ \A j \in 1..(i - 1) : s[j] # "_") - 1)
    ELSE s

\* needle in hay
Contains(hay, needle) ==
    \E i \in 0..(Len(hay) - Len(needle)) :
        SubSeq(hay, i + 1, i + Len(needle)) = needle

\* x in list
InList(x, list) == \E i \in DOMAIN list : list[i] = x

LowerAll(list) == [i \in DOMAIN list |-> Lower(list[i])]

----------------------------------------------------------------------------
(* config/settings.py: bookmaker lists and the settlement-rule table.      *)

\* 'pinnacle', 'betfair', 'bet365'
SHARP_BOOKMAKERS == <<
    <<"p", "i", "n", "n", "a", "c", "l", "e">>,
    <<"b", "e", "t", "f", "a", "i", "r">>,
    <<"b", "e", "t", "3", "6", "5">>>>

\* '1xbet', 'unibet', 'williamhill', 'marathonbet'
SOFT_BOOKMAKERS == <<
    <<"1", "x", "b", "e", "t">>,
    <<"u", "n", "i", "b", "e", "t">>,
    <<"w", "i", "l", "l", "i", "a", "m", "h", "i", "l", "l">>,
    <<"m", "a", "r", "a", "t", "h", "o", "n", "b", "e", "t">>>>

\* 'pinnacle', 'betfair'
DRIFT_SHARP_BOOKMAKERS == <<
    <<"p", "i", "n", "n", "a", "c", "l", "e">>,
    <<"b", "e", "t", "f", "a", "i", "r">>>>

DRIFT_VALUE_THRESHOLD == Rat(5)

ENABLE_RISK_REPORTER == TRUE

\* BOOKMAKER_OVERTIME_RULES.get(bookmaker, 'unknown'); of a key the dict
\* literal gives twice, the later value is the one the dict holds
OvertimeRule(bookmaker) ==
    IF bookmaker = <<"P", "o", "i", "n", "t", "s", "B", "e", "t">> THEN "includes_overtime" ELSE   \* 'PointsBet'
    IF bookmaker = <<"D", "r", "a", "f", "t", "K", "i", "n", "g", "s">> THEN "includes_overtime" ELSE   \* 'DraftKings'
    IF bookmaker = <<"F", "a", "n", "D", "u", "e", "l">> THEN "includes_overtime" ELSE   \* 'FanDuel'
    IF bookmaker = <<"B", "e", "t", "M", "G", "M">> THEN "includes_overtime" ELSE   \* 'BetMGM'
    IF bookmaker = <<"C", "a", "e", "s", "a", "r", "s">> THEN "includes_overtime" ELSE   \* 'Caesars'
    IF bookmaker = <<"K", "w", "i", "f", "f">> THEN "regulation_only" ELSE   \* 'Kwiff'
    IF bookmaker = <<"B", "e", "t", "f", "a", "i", "r">> THEN "regulation_only" ELSE   \* 'Betfair'
    IF bookmaker = <<"B", "e", "t", "3", "6", "5">> THEN "regulation_only" ELSE   \* 'Bet365'
    IF bookmaker = <<"L", "a", "d", "b", "r", "o", "k", "e", "s">> THEN "regulation_only" ELSE   \* 'Ladbrokes'
    IF bookmaker = <<"W", "i", "l", "l", "i", "a", "m", " ", "H", "i", "l", "l">> THEN "regulation_only" ELSE   \* 'William Hill'
    IF bookmaker = <<"U", "n", "i", "b", "e", "t">> THEN "regulation_only" ELSE   \* 'Unibet'
    IF bookmaker = <<"1", "x", "B", "e", "t">> THEN "regulation_only" ELSE   \* '1xBet'
    IF bookmaker = <<"P", "i", "n", "n", "a", "c", "l", "e">> THEN "regulation_only" ELSE   \* 'Pinnacle'
    "unknown"

\* BOOKMAKER_OVERTIME_RULES.items(): the keys in the order the dict literal
\* first gives them, each with the value the literal gives it last
BOOKMAKER_OVERTIME_RULES == <<
    <<<<"P", "o", "i", "n", "t", "s", "B", "e", "t">>, "includes_overtime">>,
    <<<<"D", "r", "a", "f", "t", "K", "i", "n", "g", "s">>, "includes_overtime">>,
    <<<<"F", "a", "n", "D", "u", "e", "l">>, "includes_overtime">>,
    <<<<"B", "e", "t", "M", "G", "M">>, "includes_overtime">>,
    <<<<"C", "a", "e", "s", "a", "r", "s">>, "includes_overtime">>,
    <<<<"U", "n", "i", "b", "e", "t">>, "regulation_only">>,
    <<<<"W", "i", "l", "l", "i", "a", "m", " ", "H", "i", "l", "l">>, "regulation_only">>,
    <<<<"1", "x", "B", "e", "t">>, "regulation_only">>,
    <<<<"P", "i", "n", "n", "a", "c", "l", "e">>, "regulation_only">>,
    <<<<"K", "w", "i", "f", "f">>, "regulation_only">>,
    <<<<"B", "e", "t", "f", "a", "i", "r">>, "regulation_only">>,
    <<<<"B", "e", "t", "3", "6", "5">>, "regulation_only">>,
    <<<<"L", "a", "d", "b", "r", "o", "k", "e", "s">>, "regulation_only">>>>

\* 'Kwiff', 'InternationalBookieX'
HIGH_RISK_BOOKMAKERS == <<
    <<"K", "w", "i", "f", "f">>,
    <<"I", "n", "t", "e", "r", "n", "a", "t", "i", "o", "n", "a", "l", "B", "o", "o", "k", "i", "e", "X">>>>

----------------------------------------------------------------------------
(* BookmakerClassifier                                                     *)

\* __init__: the two lists, lower-cased once
sharps == LowerAll(SHARP_BOOKMAKERS)

softs == LowerAll(SOFT_BOOKMAKERS)

\* as classify_bookmaker, without the lower() of the cleaned name
classify_bookmaker_nolower(bookmaker) ==
    LET clean_name == SplitFirst(bookmaker)
    IN  IF InList(clean_name, sharps) THEN "sharp"
        ELSE IF InList(clean_name, softs) THEN "soft"
        ELSE "unknown"

classify_bookmaker(bookmaker) ==
    LET clean_name == Lower(SplitFirst(bookmaker))
    IN  IF InList(clean_name, sharps) THEN "sharp"
        ELSE IF InList(clean_name, softs) THEN "soft"
        ELSE "unknown"

\* the tuple (emoji, text, explanation); the emoji is given by its name
PriorityTag(emoji, text, explanation) == <<emoji, text, explanation>>

get_priority_tag(bookmaker_a, bookmaker_b) ==
    LET class_a == classify_bookmaker(bookmaker_a)
        class_b == classify_bookmaker(bookmaker_b)
    IN  IF \/ class_a = "sharp" /\ class_b = "soft"
           \/ class_a = "soft" /\ class_b = "sharp"
        THEN PriorityTag("star", "HIGH CONFIDENCE",
                 "Sharp bookmaker vs Soft bookmaker - High probability profit")
        ELSE IF class_a = "soft" /\ class_b = "soft"
        THEN PriorityTag("high voltage", "FAST MOVE",
                 "Both bookmakers are slow movers - Temporary pricing lag")
        ELSE IF class_a = "sharp" /\ class_b = "sharp"
        THEN PriorityTag("small blue diamond", "SHARP ARB",
                 "Rare arbitrage between market leaders - Act quickly")
        ELSE PriorityTag("bar chart", "STANDARD", "Standard arbitrage opportunity")

\* None is <<>>, a returned bookmaker b is <<b>>
get_sharp_bookmaker(bookmaker_a, bookmaker_b) ==
    LET class_a == classify_bookmaker(bookmaker_a)
        class_b == classify_bookmaker(bookmaker_b)
    IN  IF class_a = "sharp" THEN <<bookmaker_a>>
        ELSE IF class_b = "sharp" THEN <<bookmaker_b>>
        ELSE <<>>

----------------------------------------------------------------------------
(* DriftTracker.track_value_opportunity                                    *)
(* sharp_prices maps a key <<event_id, outcome>> to <<>> (no entry) or to  *)
(* <<[bookmaker, odds]>>; the entry's timestamp is never read and is left  *)
(* out.                                                                    *)

\* as TrackedSharps, from the classifier's sharp list
TrackedSharps_classifier == LowerAll(SHARP_BOOKMAKERS)

\* [s.lower() for s in DRIFT_SHARP_BOOKMAKERS]
TrackedSharps == LowerAll(DRIFT_SHARP_BOOKMAKERS)

\* as TrackResult, with a signal using up every stored consensus
TrackResult_signal_clears(sp, signal, raised) ==
    [sharp_prices |-> [k \in DOMAIN sp |-> IF signal # <<>> THEN <<>> ELSE sp[k]],
     signal |-> signal, raised |-> raised]

TrackResult(sp, signal, raised) ==
    [sharp_prices |-> sp, signal |-> signal, raised |-> raised]

\* as track_value_opportunity, with the stored price following every drop
track_value_opportunity_any_drop(sp, event_id, bookmaker, outcome, current_odds) ==
    LET clean_bookie == Lower(SplitFirst(bookmaker))
        bookie_class == classify_bookmaker(bookmaker)
        event_outcome_key == <<event_id, outcome>>
        entry == <<[bookmaker |-> bookmaker, odds |-> current_odds]>>
    IN  IF InList(clean_bookie, TrackedSharps)
        THEN IF sp[event_outcome_key] = <<>>
             THEN TrackResult([sp EXCEPT ![event_outcome_key] = entry], <<>>, FALSE)
             ELSE LET prev_sharp == sp[event_outcome_key][1].odds
                  IN  IF RatLT(current_odds, prev_sharp)
                      THEN IF prev_sharp = Zero
                           THEN TrackResult(sp, <<>>, TRUE)   \* / prev_sharp
                           ELSE LET drop_pct ==
                                        RatMul(RatDiv(RatSub(prev_sharp, current_odds),
                                                      prev_sharp), Rat(100))
                                IN  IF RatLT(Rat(0), drop_pct)
                                    THEN TrackResult(
                                           [sp EXCEPT ![event_outcome_key] = entry],
                                           <<>>, FALSE)
                                    ELSE TrackResult(sp, <<>>, FALSE)
                      ELSE TrackResult(sp, <<>>, FALSE)
        ELSE IF bookie_class = "soft"
        THEN IF sp[event_outcome_key] # <<>>
             THEN LET sharp_price == sp[event_outcome_key][1].odds
                      sharp_bookie == sp[event_outcome_key][1].bookmaker
                  IN  IF sharp_price = Zero
                      THEN TrackResult(sp, <<>>, TRUE)        \* / sharp_price
                      ELSE LET value_gap_pct ==
                                   RatMul(RatDiv(RatSub(current_odds, sharp_price),
                                                 sharp_price), Rat(100))
                           IN  IF RatLT(DRIFT_VALUE_THRESHOLD, value_gap_pct)
                               THEN TrackResult(sp,
                                       <<[type |-> "value_bet",
                                          event_id |-> event_id,
                                          outcome |-> outcome,
                                          soft_bookmaker |-> bookmaker,
                                          soft_odds |-> current_odds,
                                          sharp_bookmaker |-> sharp_bookie,
                                          sharp_odds |-> sharp_price,
                                          value_gap |-> value_gap_pct]>>,
                                       FALSE)
                               ELSE TrackResult(sp, <<>>, FALSE)
             ELSE TrackResult(sp, <<>>, FALSE)
        ELSE TrackResult(sp, <<>>, FALSE)

\* as track_value_opportunity, with a signal for every positive gap
track_value_opportunity_any_gap(sp, event_id, bookmaker, outcome, current_odds) ==
    LET clean_bookie == Lower(SplitFirst(bookmaker))
        bookie_class == classify_bookmaker(bookmaker)
        event_outcome_key == <<event_id, outcome>>
        entry == <<[bookmaker |-> bookmaker, odds |-> current_odds]>>
    IN  IF InList(clean_bookie, TrackedSharps)
        THEN IF sp[event_outcome_key] = <<>>
             THEN TrackResult([sp EXCEPT ![event_outcome_key] = entry], <<>>, FALSE)
             ELSE LET prev_sharp == sp[event_outcome_key][1].odds
                  IN  IF RatLT(current_odds, prev_sharp)
                      THEN IF prev_sharp = Zero
                           THEN TrackResult(sp, <<>>, TRUE)   \* / prev_sharp
                           ELSE LET drop_pct ==
                                        RatMul(RatDiv(RatSub(prev_sharp, current_odds),
                                                      prev_sharp), Rat(100))
                                IN  IF RatLT(Rat(3), drop_pct)
                                    THEN TrackResult(
                                           [sp EXCEPT ![event_outcome_key] = entry],
                                           <<>>, FALSE)
                                    ELSE TrackResult(sp, <<>>, FALSE)
                      ELSE TrackResult(sp, <<>>, FALSE)
        ELSE IF bookie_class = "soft"
        THEN IF sp[event_outcome_key] # <<>>
             THEN LET sharp_price == sp[event_outcome_key][1].odds
                      sharp_bookie == sp[event_outcome_key][1].bookmaker
                  IN  IF sharp_price = Zero
                      THEN TrackResult(sp, <<>>, TRUE)        \* / sharp_price
                      ELSE LET value_gap_pct ==
                                   RatMul(RatDiv(RatSub(current_odds, sharp_price),
                                                 sharp_price), Rat(100))
                           IN  IF RatLT(Rat(0), value_gap_pct)
                               THEN TrackResult(sp,
                                       <<[type |-> "value_bet",
                                          event_id |-> event_id,
                                          outcome |-> outcome,
                                          soft_bookmaker |-> bookmaker,
                                          soft_odds |-> current_odds,
                                          sharp_bookmaker |-> sharp_bookie,
                                          sharp_odds |-> sharp_price,
                                          value_gap |-> value_gap_pct]>>,
                                       FALSE)
                               ELSE TrackResult(sp, <<>>, FALSE)
             ELSE TrackResult(sp, <<>>, FALSE)
        ELSE TrackResult(sp, <<>>, FALSE)

track_value_opportunity(sp, event_id, bookmaker, outcome, current_odds) ==
    LET clean_bookie == Lower(SplitFirst(bookmaker))
        bookie_class == classify_bookmaker(bookmaker)
        event_outcome_key == <<event_id, outcome>>
        entry == <<[bookmaker |-> bookmaker, odds |-> current_odds]>>
    IN  IF InList(clean_bookie, TrackedSharps)
        THEN IF sp[event_outcome_key] = <<>>
             THEN TrackResult([sp EXCEPT ![event_outcome_key] = entry], <<>>, FALSE)
             ELSE LET prev_sharp == sp[event_outcome_key][1].odds
                  IN  IF RatLT(current_odds, prev_sharp)
                      THEN IF prev_sharp = Zero
                           THEN TrackResult(sp, <<>>, TRUE)   \* / prev_sharp
                           ELSE LET drop_pct ==
                                        RatMul(RatDiv(RatSub(prev_sharp, current_odds),
                                                      prev_sharp), Rat(100))
                                IN  IF RatLT(Rat(3), drop_pct)
                                    THEN TrackResult(
                                           [sp EXCEPT ![event_outcome_key] = entry],
                                           <<>>, FALSE)
                                    ELSE TrackResult(sp, <<>>, FALSE)
                      ELSE TrackResult(sp, <<>>, FALSE)
        ELSE IF bookie_class = "soft"
        THEN IF sp[event_outcome_key] # <<>>
             THEN LET sharp_price == sp[event_outcome_key][1].odds
                      sharp_bookie == sp[event_outcome_key][1].bookmaker
                  IN  IF sharp_price = Zero
                      THEN TrackResult(sp, <<>>, TRUE)        \* / sharp_price
                      ELSE LET value_gap_pct ==
                                   RatMul(RatDiv(RatSub(current_odds, sharp_price),
                                                 sharp_price), Rat(100))
                           IN  IF RatLT(DRIFT_VALUE_THRESHOLD, value_gap_pct)
                               THEN TrackResult(sp,
                                       <<[type |-> "value_bet",
                                          event_id |-> event_id,
                                          outcome |-> outcome,
                                          soft_bookmaker |-> bookmaker,
                                          soft_odds |-> current_odds,
                                          sharp_bookmaker |-> sharp_bookie,
                                          sharp_odds |-> sharp_price,
                                          value_gap |-> value_gap_pct]>>,
                                       FALSE)
                               ELSE TrackResult(sp, <<>>, FALSE)
             ELSE TrackResult(sp, <<>>, FALSE)
        ELSE TrackResult(sp, <<>>, FALSE)

----------------------------------------------------------------------------
(* ArbitrageCalculator.apply_safety_filters                                *)

FilterResult(passes, reason) == [passes |-> passes, reason |-> reason]

\* as apply_safety_filters, with the rule check ahead of the two ROI filters
apply_safety_filters_rule_first(risk_reporter, roi, bookmaker_a, bookmaker_b, sport) ==
    IF risk_reporter
       /\ Contains(Lower(sport), <<"b", "a", "s", "k", "e", "t", "b", "a", "l", "l">>)
       /\ LET rule_a == OvertimeRule(bookmaker_a)
              rule_b == OvertimeRule(bookmaker_b)
          IN  rule_a # rule_b /\ rule_a # "unknown" /\ rule_b # "unknown"
    THEN FilterResult(FALSE, "RULE_MISMATCH")
    ELSE IF RatLT(MAX_ROI_THRESHOLD, roi) THEN FilterResult(FALSE, "PALPABLE_ERROR")
    ELSE IF RatLT(roi, MIN_ROI_THRESHOLD) THEN FilterResult(FALSE, "LOW_PROFIT")
    ELSE FilterResult(TRUE, "None")

\* as apply_safety_filters, with the rule check made for every sport
apply_safety_filters_any_sport(risk_reporter, roi, bookmaker_a, bookmaker_b, sport) ==
    IF RatLT(MAX_ROI_THRESHOLD, roi) THEN FilterResult(FALSE, "PALPABLE_ERROR")
    ELSE IF RatLT(roi, MIN_ROI_THRESHOLD) THEN FilterResult(FALSE, "LOW_PROFIT")
    ELSE IF risk_reporter
            /\ LET rule_a == OvertimeRule(bookmaker_a)
                   rule_b == OvertimeRule(bookmaker_b)
               IN  rule_a # rule_b /\ rule_a # "unknown" /\ rule_b # "unknown"
    THEN FilterResult(FALSE, "RULE_MISMATCH")
    ELSE FilterResult(TRUE, "None")

\* risk_reporter is the value of settings.ENABLE_RISK_REPORTER the module was
\* imported with; the HIGH_RISK_BOOKMAKERS loop of lines 171-174 and the
\* soccer branch of lines 185-190 only log and have no part in the result
apply_safety_filters(risk_reporter, roi, bookmaker_a, bookmaker_b, sport) ==
    IF RatLT(MAX_ROI_THRESHOLD, roi) THEN FilterResult(FALSE, "PALPABLE_ERROR")
    ELSE IF RatLT(roi, MIN_ROI_THRESHOLD) THEN FilterResult(FALSE, "LOW_PROFIT")
    ELSE IF risk_reporter
            /\ Contains(Lower(sport), <<"b", "a", "s", "k", "e", "t", "b", "a", "l", "l">>)
            /\ LET rule_a == OvertimeRule(bookmaker_a)
                   rule_b == OvertimeRule(bookmaker_b)
               IN  rule_a # rule_b /\ rule_a # "unknown" /\ rule_b # "unknown"
    THEN FilterResult(FALSE, "RULE_MISMATCH")
    ELSE FilterResult(TRUE, "None")

----------------------------------------------------------------------------
(* RiskReporter                                                            *)

\* line 351: the test one key of the rules database is put to
RuleKeyMatches(key, clean_name) ==
    \/ Contains(Lower(clean_name), Lower(key))
    \/ Contains(Lower(key), Lower(clean_name))

\* the rule of the first key that matches; the sport argument is not read
_get_settlement_rule(bookmaker, sport) ==
    LET clean_name == SplitFirst(bookmaker)
        rules_database == BOOKMAKER_OVERTIME_RULES
        hits == {i \in DOMAIN rules_database :
                    RuleKeyMatches(rules_database[i][1], clean_name)}
    IN  IF hits = {} THEN "unknown"
        ELSE rules_database[CHOOSE i \in hits : \A j \in hits : i <= j][2]

\* arbitrage.py:168-172, the test that logs HIGH RISK BOOKIE for a pair
HighRiskFlagged(bookmaker_a, bookmaker_b) ==
    LET clean_a == SplitFirst(bookmaker_a)
        clean_b == SplitFirst(bookmaker_b)
    IN  \E i \in DOMAIN HIGH_RISK_BOOKMAKERS :
            \/ Contains(Lower(clean_a), Lower(HIGH_RISK_BOOKMAKERS[i]))
            \/ Contains(Lower(clean_b), Lower(HIGH_RISK_BOOKMAKERS[i]))

----------------------------------------------------------------------------
(* ArbitrageCalculator.find_arbitrage_opportunities                        *)
(* A quote is [bookmaker, outcome, odds]; an event is [id, sport_key].     *)

\* list(outcomes_map.keys()): the outcome names in order of first appearance
RECURSIVE OutcomeNames(_)
OutcomeNames(parsed_odds) ==
    IF parsed_odds = <<>> THEN <<>>
    ELSE LET init == OutcomeNames(SubSeq(parsed_odds, 1, Len(parsed_odds) - 1))
             last == parsed_odds[Len(parsed_odds)].outcome
         IN  IF \E i \in DOMAIN init : init[i] = last
             THEN init ELSE Append(init, last)

\* outcomes_map[outcome]: the quotes of one outcome, in list order
OutcomeEntries(parsed_odds, outcome) ==
    LET IsOutcome(entry) == entry.outcome = outcome
    IN  SelectSeq(parsed_odds, IsOutcome)

\* the quotes in the order the tracking loop of lines 224-231 visits them
RECURSIVE TrackingOrder(_, _)
TrackingOrder(parsed_odds, outcomes) ==
    IF outcomes = <<>> THEN <<>>
    ELSE OutcomeEntries(parsed_odds, Head(outcomes))
         \o TrackingOrder(parsed_odds, Tail(outcomes))

\* lines 224-231: one track_value_opportunity call per quote; an exception
\* ends the loop and leaves the cache as the calls before it made it
RECURSIVE TrackAll(_, _, _, _)
TrackAll(sp, signals, event_id, entries) ==
    IF entries = <<>>
    THEN [sharp_prices |-> sp, signals |-> signals, raised |-> FALSE]
    ELSE LET r == track_value_opportunity(sp, event_id, Head(entries).bookmaker,
                                          Head(entries).outcome, Head(entries).odds)
         IN  IF r.raised
             THEN [sharp_prices |-> r.sharp_prices, signals |-> signals,
                   raised |-> TRUE]
             ELSE TrackAll(r.sharp_prices, signals \o r.signal, event_id,
                           Tail(entries))

\* the nested loops of lines 239-240: every <<quote of A, quote of B>>
TwoWayCombos(entries_a, entries_b) ==
    [k \in 1..(Len(entries_a) * Len(entries_b)) |->
        <<entries_a[((k - 1) \div Len(entries_b)) + 1],
          entries_b[((k - 1) % Len(entries_b)) + 1]>>]

\* the nested loops of lines 289-291
ThreeWayCombos(entries_1, entries_x, entries_2) ==
    [k \in 1..(Len(entries_1) * Len(entries_x) * Len(entries_2)) |->
        <<entries_1[((k - 1) \div (Len(entries_x) * Len(entries_2))) + 1],
          entries_x[(((k - 1) \div Len(entries_2)) % Len(entries_x)) + 1],
          entries_2[((k - 1) % Len(entries_2)) + 1]>>]

\* as TwoWayTested, without the same-bookmaker skip
TwoWayTested_noskip(combo) == combo[1].bookmaker = combo[1].bookmaker

\* line 242: the pair is skipped when both quotes name one bookmaker
TwoWayTested(combo) == combo[1].bookmaker # combo[2].bookmaker

\* lines 293-294: the triple is skipped when fewer than two bookmakers occur
ThreeWayTested(combo) ==
    Cardinality({combo[1].bookmaker, combo[2].bookmaker, combo[3].bookmaker}) >= 2

\* the detect_* call made for one tested combination
DetectCombo(combo) ==
    IF Len(combo) = 2
    THEN detect_two_way_arbitrage(combo[1].odds, combo[2].odds)
    ELSE detect_three_way_arbitrage(combo[1].odds, combo[2].odds, combo[3].odds)

\* the two bookmakers handed to apply_safety_filters: both legs of a pair,
\* the first and the last leg of a triple (lines 305-310)
FilterCombo(roi, combo, sport) ==
    apply_safety_filters(ENABLE_RISK_REPORTER, roi, combo[1].bookmaker,
                         combo[Len(combo)].bookmaker, sport)

\* as Opportunity, with the stakes computed from the prices in reverse order
Opportunity_reversed(smart, event, roi, combo) ==
    [event_id |-> event.id,
     roi |-> roi,
     bets |-> [i \in DOMAIN combo |->
                  [outcome |-> combo[i].outcome,
                   odds |-> combo[i].odds,
                   bookmaker |-> combo[i].bookmaker]],
     stakes |-> calculate_stakes(smart, DEFAULT_TOTAL_INVESTMENT,
                    [i \in DOMAIN combo |-> combo[Len(combo) + 1 - i].odds]).stakes]

\* lines 260-282 and 313-340: the record appended for a passing combination
Opportunity(smart, event, roi, combo) ==
    [event_id |-> event.id,
     roi |-> roi,
     bets |-> [i \in DOMAIN combo |->
                  [outcome |-> combo[i].outcome,
                   odds |-> combo[i].odds,
                   bookmaker |-> combo[i].bookmaker]],
     stakes |-> calculate_stakes(smart, DEFAULT_TOTAL_INVESTMENT,
                                 [i \in DOMAIN combo |-> combo[i].odds]).stakes]

\* the body of the innermost loop over the tested combinations, in order
RECURSIVE ScanCombos(_, _, _, _)
ScanCombos(smart, event, combos, opportunities) ==
    IF combos = <<>>
    THEN [opportunities |-> opportunities, raised |-> FALSE]
    ELSE LET combo == Head(combos)
             d == DetectCombo(combo)
         IN  IF d.raised
             THEN [opportunities |-> <<>>, raised |-> TRUE]
             ELSE IF d.is_arb /\ FilterCombo(d.roi, combo, event.sport_key).passes
             THEN IF calculate_stakes(smart, DEFAULT_TOTAL_INVESTMENT,
                        [i \in DOMAIN combo |-> combo[i].odds]).raised
                  THEN [opportunities |-> <<>>, raised |-> TRUE]
                  ELSE ScanCombos(smart, event, Tail(combos),
                          Append(opportunities,
                                 Opportunity(smart, event, d.roi, combo)))
             ELSE ScanCombos(smart, event, Tail(combos), opportunities)

\* test: which arbitrage test the call selected; tested: the combinations a
\* detect_* call was made for; signals: the value_opp results of the tracking
\* loop, which the method assigns and does not return
FindResult(opportunities, sp, signals, test, tested, raised) ==
    [opportunities |-> opportunities, sharp_prices |-> sp, signals |-> signals,
     test |-> test, tested |-> tested, raised |-> raised]

find_arbitrage_opportunities(sp, smart, event, parsed_odds) ==
    LET outcomes == OutcomeNames(parsed_odds)
        num_outcomes == Len(outcomes)
        tracked == TrackAll(sp, <<>>, event.id, TrackingOrder(parsed_odds, outcomes))
    IN  IF tracked.raised
        THEN FindResult(<<>>, tracked.sharp_prices, tracked.signals, "none", <<>>,
                        TRUE)
        ELSE IF num_outcomes = 2
        THEN LET tested == SelectSeq(
                     TwoWayCombos(OutcomeEntries(parsed_odds, outcomes[1]),
                                  OutcomeEntries(parsed_odds, outcomes[2])),
                     TwoWayTested)
                 scan == ScanCombos(smart, event, tested, <<>>)
             IN  FindResult(scan.opportunities, tracked.sharp_prices,
                            tracked.signals, "two_way", tested, scan.raised)
        ELSE IF num_outcomes = 3
        THEN LET tested == SelectSeq(
                     ThreeWayCombos(OutcomeEntries(parsed_odds, outcomes[1]),
                                    OutcomeEntries(parsed_odds, outcomes[2]),
                                    OutcomeEntries(parsed_odds, outcomes[3])),
                     ThreeWayTested)
                 scan == ScanCombos(smart, event, tested, <<>>)
             IN  FindResult(scan.opportunities, tracked.sharp_prices,
                            tracked.signals, "three_way", tested, scan.raised)
        ELSE FindResult(<<>>, tracked.sharp_prices, tracked.signals, "none", <<>>,
                        FALSE)

----------------------------------------------------------------------------
(* ArbitrageCalculator.track_odds_drift                                    *)
(* A price map (a dict outcome -> price) is a sequence of [outcome, odds]  *)
(* items with distinct outcomes, in insertion order.                       *)

ENABLE_DRIFT_TRACKER == TRUE

DRIFT_THRESHOLD_PERCENT == Rat(5)

\* outcome in prev
HasOutcome(prev, outcome) == \E i \in DOMAIN prev : prev[i].outcome = outcome

\* prev[outcome]
ValueOf(prev, outcome) ==
    prev[CHOOSE i \in DOMAIN prev : prev[i].outcome = outcome].odds

DriftResult(previous, alert, raised) ==
    [previous_odds |-> previous, alert |-> alert, raised |-> raised]

\* lines 361-378: the loop over the items of current_odds not yet visited,
\* then the store; a return from inside the loop skips the store
RECURSIVE DriftLoop(_, _, _, _)
DriftLoop(previous, event_id, current_odds, items) ==
    IF items = <<>>
    THEN DriftResult([previous EXCEPT ![event_id] = <<current_odds>>], <<>>, FALSE)
    ELSE LET outcome == Head(items).outcome
             current_value == Head(items).odds
             prev == previous[event_id][1]
         IN  IF previous[event_id] # <<>> /\ HasOutcome(prev, outcome)
             THEN LET prev_value == ValueOf(prev, outcome)
                  IN  IF prev_value = Zero
                      THEN DriftResult(previous, <<>>, TRUE)   \* / prev_value
                      ELSE LET quotient == RatDiv(RatSub(current_value, prev_value),
                                                  prev_value)
                               change_pct ==
                                   RatMul(<<Abs(quotient[1]), quotient[2]>>, Rat(100))
                           IN  IF RatLT(DRIFT_THRESHOLD_PERCENT, change_pct)
                               THEN DriftResult(previous,
                                       <<[event_id |-> event_id,
                                          outcome |-> outcome,
                                          previous_odds |-> prev_value,
                                          current_odds |-> current_value,
                                          drift_percent |-> change_pct]>>,
                                       FALSE)
                               ELSE DriftLoop(previous, event_id, current_odds,
                                              Tail(items))
             ELSE DriftLoop(previous, event_id, current_odds, Tail(items))

track_odds_drift(previous, event_id, current_odds) ==
    IF ~ENABLE_DRIFT_TRACKER
    THEN DriftResult(previous, <<>>, FALSE)
    ELSE DriftLoop(previous, event_id, current_odds, current_odds)

----------------------------------------------------------------------------
(* Inputs.                                                                 *)

Ticks == (0 - NegTicks)..MaxTick

\* prices for the two-price calls: every tick
FinePrices == {Odds(k) : k \in Ticks}

\* prices for the three-price and stake calls: the non-positive ticks and
\* every TickStride-th positive one
CoarsePrices == {Odds(k) : k \in {j \in Ticks : j <= 0 \/ j % TickStride = 0}}

Investments == {0, 1, 100, 1000, 2500}

\* raw stake amounts in steps of one half
Amounts == {Norm(n, 2) : n \in 0..(2 * MaxAmount)}

Pinnacle == <<"p", "i", "n", "n", "a", "c", "l", "e">>

Unibet == <<"u", "n", "i", "b", "e", "t">>

Kwiff == <<"K", "w", "i", "f", "f">>

BasketballNba == <<"b", "a", "s", "k", "e", "t", "b", "a", "l", "l", "_", "n", "b", "a">>

\* bookmaker keys put to the filters and the classifier: keys of the rules
\* table as written there, API keys in lower case, keys with a region suffix,
\* a key no list names, and a key that only contains a listed name
DraftKings == <<"D", "r", "a", "f", "t", "K", "i", "n", "g", "s">>

DraftkingsKey == <<"d", "r", "a", "f", "t", "k", "i", "n", "g", "s">>

FanDuelUs == <<"F", "a", "n", "D", "u", "e", "l", "_", "u", "s">>

PinnacleTitle == <<"P", "i", "n", "n", "a", "c", "l", "e">>

BetfairExUk == <<"b", "e", "t", "f", "a", "i", "r", "_", "e", "x", "_", "u", "k">>

Bet365 == <<"b", "e", "t", "3", "6", "5">>

WilliamhillUs == <<"w", "i", "l", "l", "i", "a", "m", "h", "i", "l", "l", "_", "u", "s">>

Betway == <<"b", "e", "t", "w", "a", "y">>

PinnacleSports == <<"p", "i", "n", "n", "a", "c", "l", "e", "s", "p", "o", "r", "t", "s">>

BookmakerNames ==
    {Pinnacle, Unibet, Kwiff, DraftKings, DraftkingsKey, FanDuelUs,
     PinnacleTitle, BetfairExUk, Bet365, WilliamhillUs, Betway, PinnacleSports}

BasketballNcaab == <<"B", "a", "s", "k", "e", "t", "b", "a", "l", "l", "_", "N", "C", "A", "A", "B">>

SoccerEpl == <<"s", "o", "c", "c", "e", "r", "_", "e", "p", "l">>

AmericanfootballNfl == <<"a", "m", "e", "r", "i", "c", "a", "n", "f", "o", "o", "t", "b", "a", "l", "l", "_", "n", "f", "l">>

IcehockeyNhl == <<"i", "c", "e", "h", "o", "c", "k", "e", "y", "_", "n", "h", "l">>

SportKeys == {BasketballNba, BasketballNcaab, SoccerEpl, AmericanfootballNfl,
              IcehockeyNhl}

\* ROI percentages around the two thresholds: 0, 1.49, 1.5, 3, 15, 15.01, 20
FilterRois ==
    {Zero, Norm(149, 100), Norm(3, 2), Rat(3), Rat(15), Norm(1501, 100), Rat(20)}

Quote(bookmaker, outcome, tick) ==
    [bookmaker |-> bookmaker, outcome |-> outcome, odds |-> Odds(tick)]

\* the quotes events are made of: a tracked sharp (pinnacle), a soft (unibet)
\* and an unlisted (Kwiff) bookmaker, and for the third outcome one whose
\* rule in the table is not Kwiff's (DraftKings); prices 0, 1.50, 2.00, 2.05,
\* 2.10 and 3.20; four outcome names
QuoteSet ==
    {Quote(Pinnacle, "Home", 0),  Quote(Unibet, "Home", 42),
     Quote(Kwiff, "Home", 64),    Quote(Unibet, "Away", 41),
     Quote(Kwiff, "Away", 41),    Quote(Pinnacle, "Away", 30),
     Quote(Kwiff, "Away", 64),    Quote(DraftKings, "Draw", 64),
     Quote(Kwiff, "Other", 40)}

QuoteLists == UNION {[1..n -> QuoteSet] : n \in 0..MaxQuotes}

Events == {[id |-> "e1", sport_key |-> BasketballNba]}

EventIds == {"e1"}

OutcomeLabels == {"Home", "Away", "Draw", "Other"}

Keys == EventIds \X OutcomeLabels

----------------------------------------------------------------------------
(* State.  sharp_prices is DriftTracker.sharp_prices of the module-level   *)
(* drift_tracker; smart_rounding is settings.ENABLE_SMART_ROUNDING; call   *)
(* is the method invocation in progress and ret its outcome (<<>> while it *)
(* has not finished); previous_odds is ArbitrageCalculator.previous_odds  *)
(* (per event <<>> for no entry or <<map>>, map a price map as             *)
(* track_odds_drift takes it); sent is what the scan of the current event  *)
(* has handed to the notifier.                                             *)
(* webhook_url is DiscordNotifier.webhook_url ("" when none is set);       *)
(* recent_alerts is DiscordNotifier.recent_alerts, a dict in insertion     *)
(* order, as a sequence of [event_id, at]; now is the clock that           *)
(* datetime.now() and time.time() read, in seconds; is_scanning is         *)
(* ManualScanHandler.is_scanning; threads holds, per thread of execution,  *)
(* its position and its local variables.                                   *)

Idle == [op |-> "idle", args |-> <<>>]

EmptyCache == [k \in Keys |-> <<>>]

Returned == ret # <<>>

\* self.previous_odds = {}
NoPreviousOdds == [e \in EventIds |-> <<>>]

\* the state after construction: empty cache, settings as shipped
Init ==
    /\ sharp_prices = EmptyCache
    /\ smart_rounding = DefaultSmartRounding
    /\ previous_odds = NoPreviousOdds
    /\ sent = <<>>
    /\ call = Idle
    /\ ret = <<>>
    /\ webhook_url = ""
    /\ recent_alerts = <<>>
    /\ now = 0
    /\ is_scanning = FALSE
    /\ threads = <<>>

\* main.py:178, discord_commands.py:107: a scan hands one event's quotes over
CallFind ==
    /\ call = Idle
    /\ \E event \in Events, parsed_odds \in QuoteLists :
           call' = [op |-> "find_arbitrage_opportunities",
                    args |-> <<event, parsed_odds>>]
    /\ UNCHANGED <<sharp_prices, smart_rounding, previous_odds, sent, ret>>
    /\ UNCHANGED <<webhook_url, recent_alerts, now, is_scanning, threads>>

FindArbitrageOpportunities ==
    /\ call.op = "find_arbitrage_opportunities"
    /\ ret = <<>>
    /\ \E r \in {find_arbitrage_opportunities(sharp_prices, smart_rounding,
                                                call.args[1], call.args[2])} :
           /\ ret' = <<r>>
           /\ sharp_prices' = r.sharp_prices
    /\ UNCHANGED <<smart_rounding, previous_odds, sent, call>>
    /\ UNCHANGED <<webhook_url, recent_alerts, now, is_scanning, threads>>

\* the caller takes the result (or the exception) and goes on to the next event
ReturnToCaller ==
    /\ call.op = "find_arbitrage_opportunities"
    /\ ret # <<>>
    /\ call' = Idle
    /\ ret' = <<>>
    /\ UNCHANGED <<sharp_prices, smart_rounding, previous_odds, sent>>
    /\ UNCHANGED <<webhook_url, recent_alerts, now, is_scanning, threads>>

Next ==
    \/ CallFind
    \/ FindArbitrageOpportunities
    \/ ReturnToCaller

Spec == Init /\ [][Next]_vars

----------------------------------------------------------------------------
(* The calculator's functions on their own: Init draws one call and its    *)
(* arguments, the action of the called function computes its result.       *)

InitCalc ==
    /\ sharp_prices = EmptyCache
    /\ smart_rounding \in BOOLEAN
    /\ previous_odds = NoPreviousOdds
    /\ sent = <<>>
    /\ ret = <<>>
    /\ webhook_url = ""
    /\ recent_alerts = <<>>
    /\ now = 0
    /\ is_scanning = FALSE
    /\ threads = <<>>
    /\ \/ \E a \in FinePrices, b \in FinePrices :
             call = [op |-> "detect_two_way_arbitrage", args |-> <<a, b>>]
       \/ \E h \in CoarsePrices, d \in CoarsePrices, w \in CoarsePrices :
             call = [op |-> "detect_three_way_arbitrage", args |-> <<h, d, w>>]
       \/ \E t \in Investments, n \in 2..3 : \E l \in [1..n -> CoarsePrices] :
             call = [op |-> "calculate_stakes", args |-> <<Rat(t), l>>]
       \/ \E amount \in Amounts :
             call = [op |-> "round_stake", args |-> <<amount>>]
       \/ \E risk_reporter \in BOOLEAN, roi \in FilterRois,
             a \in BookmakerNames, b \in BookmakerNames, sport \in SportKeys :
             call = [op |-> "apply_safety_filters",
                     args |-> <<risk_reporter, roi, a, b, sport>>]
       \/ \E a \in BookmakerNames, b \in BookmakerNames :
             call = [op |-> "get_priority_tag", args |-> <<a, b>>]
       \/ \E a \in BookmakerNames, b \in BookmakerNames :
             call = [op |-> "get_sharp_bookmaker", args |-> <<a, b>>]

DetectTwoWayArbitrage ==
    /\ call.op = "detect_two_way_arbitrage"
    /\ ret = <<>>
    /\ ret' = <<detect_two_way_arbitrage(call.args[1], call.args[2])>>
    /\ UNCHANGED <<sharp_prices, smart_rounding, previous_odds, sent, call>>
    /\ UNCHANGED <<webhook_url, recent_alerts, now, is_scanning, threads>>

DetectThreeWayArbitrage ==
    /\ call.op = "detect_three_way_arbitrage"
    /\ ret = <<>>
    /\ ret' = <<detect_three_way_arbitrage(call.args[1], call.args[2],
                                           call.args[3])>>
    /\ UNCHANGED <<sharp_prices, smart_rounding, previous_odds, sent, call>>
    /\ UNCHANGED <<webhook_url, recent_alerts, now, is_scanning, threads>>

CalculateStakes ==
    /\ call.op = "calculate_stakes"
    /\ ret = <<>>
    /\ ret' = <<calculate_stakes(smart_rounding, call.args[1][1], call.args[2])>>
    /\ UNCHANGED <<sharp_prices, smart_rounding, previous_odds, sent, call>>
    /\ UNCHANGED <<webhook_url, recent_alerts, now, is_scanning, threads>>

\* lines 113-119: the rounding applied to one raw stake
RoundRawStake ==
    /\ call.op = "round_stake"
    /\ ret = <<>>
    /\ ret' = <<[stake |-> RoundStake(smart_rounding, call.args[1])]>>
    /\ UNCHANGED <<sharp_prices, smart_rounding, previous_odds, sent, call>>
    /\ UNCHANGED <<webhook_url, recent_alerts, now, is_scanning, threads>>

ApplySafetyFilters ==
    /\ call.op = "apply_safety_filters"
    /\ ret = <<>>
    /\ ret' = <<apply_safety_filters(call.args[1], call.args[2], call.args[3],
                                     call.args[4], call.args[5])>>
    /\ UNCHANGED <<sharp_prices, smart_rounding, previous_odds, sent, call>>
    /\ UNCHANGED <<webhook_url, recent_alerts, now, is_scanning, threads>>

GetPriorityTag ==
    /\ call.op = "get_priority_tag"
    /\ ret = <<>>
    /\ ret' = <<[tag |-> get_priority_tag(call.args[1], call.args[2])]>>
    /\ UNCHANGED <<sharp_prices, smart_rounding, previous_odds, sent, call>>
    /\ UNCHANGED <<webhook_url, recent_alerts, now, is_scanning, threads>>

GetSharpBookmaker ==
    /\ call.op = "get_sharp_bookmaker"
    /\ ret = <<>>
    /\ ret' = <<[sharp |-> get_sharp_bookmaker(call.args[1], call.args[2])]>>
    /\ UNCHANGED <<sharp_prices, smart_rounding, previous_odds, sent, call>>
    /\ UNCHANGED <<webhook_url, recent_alerts, now, is_scanning, threads>>

NextCalc ==
    \/ DetectTwoWayArbitrage
    \/ DetectThreeWayArbitrage
    \/ CalculateStakes
    \/ RoundRawStake
    \/ ApplySafetyFilters
    \/ GetPriorityTag
    \/ GetSharpBookmaker

SpecCalc == InitCalc /\ [][NextCalc]_vars

----------------------------------------------------------------------------
(* track_odds_drift on its own: a caller hands it one price map after      *)
(* another.                                                                *)

DriftOutcomes == {"Home", "Away"}

\* 0, 2.00, 2.05 and 2.20: moves of 2.4% and 2.5% (no alert) and of 6.8%,
\* 7.3%, 9.1% and 10% (alert); none on the 5% threshold itself, where the
\* rounding of the float division decides
DriftPrices == {Odds(0), Odds(40), Odds(41), Odds(44)}

\* the price maps over DriftOutcomes, in every insertion order
DriftMaps ==
    {m \in UNION {[1..n -> [outcome : DriftOutcomes, odds : DriftPrices]] :
                     n \in 0..Cardinality(DriftOutcomes)} :
        \A i \in DOMAIN m, j \in DOMAIN m : i # j => m[i].outcome # m[j].outcome}

CallTrackOddsDrift ==
    /\ call = Idle
    /\ \E event_id \in EventIds, current_odds \in DriftMaps :
           call' = [op |-> "track_odds_drift", args |-> <<event_id, current_odds>>]
    /\ UNCHANGED <<sharp_prices, smart_rounding, previous_odds, sent, ret>>
    /\ UNCHANGED <<webhook_url, recent_alerts, now, is_scanning, threads>>

TrackOddsDrift ==
    /\ call.op = "track_odds_drift"
    /\ ret = <<>>
    /\ LET r == track_odds_drift(previous_odds, call.args[1], call.args[2])
       IN  /\ ret' = <<r>>
           /\ previous_odds' = r.previous_odds
    /\ UNCHANGED <<sharp_prices, smart_rounding, sent, call>>
    /\ UNCHANGED <<webhook_url, recent_alerts, now, is_scanning, threads>>

ReturnFromDrift ==
    /\ call.op = "track_odds_drift"
    /\ ret # <<>>
    /\ call' = Idle
    /\ ret' = <<>>
    /\ UNCHANGED <<sharp_prices, smart_rounding, previous_odds, sent>>
    /\ UNCHANGED <<webhook_url, recent_alerts, now, is_scanning, threads>>

NextDrift ==
    \/ CallTrackOddsDrift
    \/ TrackOddsDrift
    \/ ReturnFromDrift

SpecDrift == Init /\ [][NextDrift]_vars

----------------------------------------------------------------------------
(* DriftTracker.track_value_opportunity on its own: one quote after        *)
(* another, as the tracking loop of find_arbitrage_opportunities hands     *)
(* them over.                                                              *)

\* a tracked sharp in two spellings, a sharp that is not tracked, a soft and
\* an unlisted bookmaker
TrackBookmakers == {Pinnacle, BetfairExUk, Bet365, Unibet, Kwiff}

TrackOutcomes == {"Home", "Away"}

\* -0.05, 0, 1.80, 1.85, 1.90 and 2.00: drops of 2.6% and 2.7% (stored price
\* stays) and of 5% and more (stored price follows); gaps of 2.7% to 2.8% (no
\* signal) and of 5.3% and more (signal)
TrackPrices == {Odds(0 - 1), Odds(0), Odds(36), Odds(37), Odds(38), Odds(40)}

CallTrackValueOpportunity ==
    /\ call = Idle
    /\ \E event_id \in EventIds, bookmaker \in TrackBookmakers,
          outcome \in TrackOutcomes, current_odds \in TrackPrices :
           call' = [op |-> "track_value_opportunity",
                    args |-> <<event_id, bookmaker, outcome, current_odds>>]
    /\ UNCHANGED <<sharp_prices, smart_rounding, previous_odds, sent, ret>>
    /\ UNCHANGED <<webhook_url, recent_alerts, now, is_scanning, threads>>

TrackValueOpportunity ==
    /\ call.op = "track_value_opportunity"
    /\ ret = <<>>
    /\ LET r == track_value_opportunity(sharp_prices, call.args[1], call.args[2],
                                        call.args[3], call.args[4])
       IN  /\ ret' = <<r>>
           /\ sharp_prices' = r.sharp_prices
    /\ UNCHANGED <<smart_rounding, previous_odds, sent, call>>
    /\ UNCHANGED <<webhook_url, recent_alerts, now, is_scanning, threads>>

ReturnFromTrack ==
    /\ call.op = "track_value_opportunity"
    /\ ret # <<>>
    /\ call' = Idle
    /\ ret' = <<>>
    /\ UNCHANGED <<sharp_prices, smart_rounding, previous_odds, sent>>
    /\ UNCHANGED <<webhook_url, recent_alerts, now, is_scanning, threads>>

NextTrack ==
    \/ CallTrackValueOpportunity
    \/ TrackValueOpportunity
    \/ ReturnFromTrack

SpecTrack == Init /\ [][NextTrack]_vars

----------------------------------------------------------------------------
(* ArbitrageMonitor._scan_sport_events, one event of the loop of lines     *)
(* 165-191 at a time: find_arbitrage_opportunities, then the plain drift   *)
(* check and its alert.  ret holds what the iteration adds to the returned *)
(* list, and the value_opp results find_arbitrage_opportunities assigned.  *)

\* lines 183-186: {entry['outcome']: entry['odds'] for entry in parsed_odds},
\* each outcome at the place of its first quote with the price of its last
OddsMap(parsed_odds) ==
    LET outcomes == OutcomeNames(parsed_odds)
    IN  [i \in DOMAIN outcomes |->
            LET entries == OutcomeEntries(parsed_odds, outcomes[i])
            IN  [outcome |-> outcomes[i], odds |-> entries[Len(entries)].odds]]

ScanResult(opportunities, sp, previous, alerts, signals, raised) ==
    [opportunities |-> opportunities, sharp_prices |-> sp,
     previous_odds |-> previous, sent |-> alerts, signals |-> signals,
     raised |-> raised]

\* lines 180-191, after find_arbitrage_opportunities returned found
AfterFind(found, previous, event, parsed_odds) ==
    IF found.raised
    THEN ScanResult(<<>>, found.sharp_prices, previous, <<>>, found.signals, TRUE)
    ELSE IF found.opportunities # <<>>
    THEN LET drift == track_odds_drift(previous, event.id, OddsMap(parsed_odds))
         IN  IF drift.raised
             THEN ScanResult(<<>>, found.sharp_prices, previous, <<>>,
                             found.signals, TRUE)
             ELSE ScanResult(found.opportunities, found.sharp_prices,
                             drift.previous_odds, drift.alert, found.signals,
                             FALSE)
    ELSE ScanResult(<<>>, found.sharp_prices, previous, <<>>, found.signals,
                    FALSE)

\* lines 166-175: an event with fewer than two quotes, or with stale quotes,
\* is passed over; stale is the value of is_odds_stale for the first quote
Skipped(parsed_odds, stale) == Len(parsed_odds) < 2 \/ stale

\* the quotes the scanned events are made of
ScanQuoteSet ==
    {Quote(Pinnacle, "Home", 0),  Quote(Pinnacle, "Away", 30),
     Quote(Unibet, "Away", 41),   Quote(Unibet, "Home", 42),
     Quote(Kwiff, "Away", 41),    Quote(Kwiff, "Home", 64)}

ScanQuoteLists == UNION {[1..n -> ScanQuoteSet] : n \in 0..(MaxQuotes - 1)}

CallScanEvent ==
    /\ call = Idle
    /\ \E event \in Events, parsed_odds \in ScanQuoteLists, stale \in BOOLEAN :
           call' = [op |-> "scan_event", args |-> <<event, parsed_odds, stale>>]
    /\ UNCHANGED <<sharp_prices, smart_rounding, previous_odds, sent, ret>>
    /\ UNCHANGED <<webhook_url, recent_alerts, now, is_scanning, threads>>

ScanEvent ==
    /\ call.op = "scan_event"
    /\ ret = <<>>
    /\ IF Skipped(call.args[2], call.args[3])
       THEN /\ ret' = <<ScanResult(<<>>, sharp_prices, previous_odds, <<>>, <<>>,
                                   FALSE)>>
            /\ UNCHANGED <<sharp_prices, previous_odds, sent>>
       ELSE \E found \in {find_arbitrage_opportunities(
                              sharp_prices, smart_rounding, call.args[1],
                              call.args[2])} :
            \E r \in {AfterFind(found, previous_odds, call.args[1],
                                call.args[2])} :
                /\ ret' = <<r>>
                /\ sharp_prices' = r.sharp_prices
                /\ previous_odds' = r.previous_odds
                /\ sent' = r.sent
    /\ UNCHANGED <<smart_rounding, call>>
    /\ UNCHANGED <<webhook_url, recent_alerts, now, is_scanning, threads>>

\* the loop goes on to the next event (or the exception reaches run)
NextEvent ==
    /\ call.op = "scan_event"
    /\ ret # <<>>
    /\ call' = Idle
    /\ ret' = <<>>
    /\ sent' = <<>>
    /\ UNCHANGED <<sharp_prices, smart_rounding, previous_odds>>
    /\ UNCHANGED <<webhook_url, recent_alerts, now, is_scanning, threads>>

NextScan ==
    \/ CallScanEvent
    \/ ScanEvent
    \/ NextEvent

SpecScan == Init /\ [][NextScan]_vars

----------------------------------------------------------------------------
(* DiscordNotifier: the alert cooldown cache                               *)
(* A call reads the clock once; the post of lines 46-51 either succeeds or *)
(* raises a RequestException.                                              *)

\* settings.ALERT_COOLDOWN_MINUTES
ALERT_COOLDOWN_MINUTES == 10

AlertEntry(event_id, at) == [event_id |-> event_id, at |-> at]

\* event_id in self.recent_alerts
HasAlert(recent, event_id) ==
    \E i \in DOMAIN recent : recent[i].event_id = event_id

\* self.recent_alerts[event_id]
AlertTime(recent, event_id) ==
    recent[CHOOSE i \in DOMAIN recent : recent[i].event_id = event_id].at

_is_duplicate_alert(recent, at, event_id) ==
    IF HasAlert(recent, event_id)
    THEN LET last_alert_time == AlertTime(recent, event_id)
             minutes_since == Norm(at - last_alert_time, 60)
         IN  RatLT(minutes_since, Rat(ALERT_COOLDOWN_MINUTES))
    ELSE FALSE

\* self.recent_alerts[event_id] = ...: a key the dict holds keeps its place,
\* a new key goes last
SetAlert(recent, event_id, at) ==
    IF HasAlert(recent, event_id)
    THEN [i \in DOMAIN recent |->
             IF recent[i].event_id = event_id
             THEN AlertEntry(event_id, at) ELSE recent[i]]
    ELSE Append(recent, AlertEntry(event_id, at))

\* sorted(self.recent_alerts.items(), key=lambda x: x[1]); no two entries
\* of a cache have the same time, as every call reads a later clock
SortedByTime(items) == SortSeq(items, LAMBDA a, b : a.at < b.at)

\* as _mark_alerted, with the cleanup keeping the 100 last inserted keys
_mark_alerted_last_inserted(recent, at, event_id) ==
    LET stored == SetAlert(recent, event_id, at)
    IN  IF Len(stored) > 100
        THEN SubSeq(stored, Len(stored) - 99, Len(stored))
        ELSE stored

_mark_alerted(recent, at, event_id) ==
    LET stored == SetAlert(recent, event_id, at)
    IN  IF Len(stored) > 100
        THEN LET sorted_events == SortedByTime(stored)
             IN  SubSeq(sorted_events, Len(sorted_events) - 99,
                        Len(sorted_events))
        ELSE stored

AlertResult(recent, posted, result) ==
    [recent_alerts |-> recent, posted |-> posted, result |-> result]

\* posted: the alert reached Discord; post_ok: requests.post and
\* raise_for_status returned without a RequestException
send_arbitrage_alert(url, recent, at, event_id, post_ok) ==
    IF url = ""
    THEN AlertResult(recent, FALSE, FALSE)
    ELSE IF _is_duplicate_alert(recent, at, event_id)
    THEN AlertResult(recent, FALSE, FALSE)
    ELSE IF post_ok
    THEN AlertResult(_mark_alerted(recent, at, event_id), TRUE, TRUE)
    ELSE AlertResult(recent, FALSE, FALSE)

----------------------------------------------------------------------------
(* The notifier on its own: one send_arbitrage_alert call after another,   *)
(* from one thread.  Events are numbered; the notifier starts at second 0, *)
(* either fresh or after alerts for the events 1..n, one a second, and     *)
(* sent is the list of the alerts that reached Discord.                    *)

\* seconds the clock advances after the start
MaxElapsed == 4

PrefillSizes == {0, 99, 100}

\* the cache after alerts for the events 1..n, one a second from first on
Prefilled(n, first) == [i \in 1..n |-> AlertEntry(i, first + i - 1)]

\* the two oldest events of a prefilled cache and two events it does not hold
AlertEventIds == {1, 2, 101, 102}

\* the n alerts ended just now, or the cooldown of the first of them is
\* about to end
FirstAlertTimes(n) == {1 - n, 2 - ALERT_COOLDOWN_MINUTES * 60}

WebhookUrls == {"", "https://discord.com/api/webhooks/1"}

InitAlert ==
    /\ sharp_prices = EmptyCache
    /\ smart_rounding = DefaultSmartRounding
    /\ previous_odds = NoPreviousOdds
    /\ call = Idle
    /\ ret = <<>>
    /\ is_scanning = FALSE
    /\ threads = <<>>
    /\ webhook_url \in WebhookUrls
    /\ now = 0
    /\ \E n \in PrefillSizes : \E first \in FirstAlertTimes(n) :
           recent_alerts = (IF webhook_url = "" THEN <<>> ELSE Prefilled(n, first))
    /\ sent = recent_alerts

\* main.py:258, discord_commands.py:112: the next opportunity is handed over,
\* a second or more after the call before
CallSendArbitrageAlert ==
    /\ call = Idle
    /\ now < MaxElapsed
    /\ \E event_id \in AlertEventIds, post_ok \in BOOLEAN :
           call' = [op |-> "send_arbitrage_alert", args |-> <<event_id, post_ok>>]
    /\ now' = now + 1
    /\ UNCHANGED <<sharp_prices, smart_rounding, previous_odds, sent, ret>>
    /\ UNCHANGED <<webhook_url, recent_alerts, is_scanning, threads>>

SendArbitrageAlert ==
    /\ call.op = "send_arbitrage_alert"
    /\ ret = <<>>
    /\ \E r \in {send_arbitrage_alert(webhook_url, recent_alerts, now,
                                      call.args[1], call.args[2])} :
           /\ ret' = <<r>>
           /\ recent_alerts' = r.recent_alerts
           /\ sent' = IF r.posted
                      THEN Append(sent, AlertEntry(call.args[1], now))
                      ELSE sent
    /\ UNCHANGED <<sharp_prices, smart_rounding, previous_odds, call>>
    /\ UNCHANGED <<webhook_url, now, is_scanning, threads>>

ReturnFromSend ==
    /\ call.op = "send_arbitrage_alert"
    /\ ret # <<>>
    /\ call' = Idle
    /\ ret' = <<>>
    /\ UNCHANGED <<sharp_prices, smart_rounding, previous_odds, sent>>
    /\ UNCHANGED <<webhook_url, recent_alerts, now, is_scanning, threads>>

NextAlert ==
    \/ CallSendArbitrageAlert
    \/ SendArbitrageAlert
    \/ ReturnFromSend

SpecAlert == InitAlert /\ [][NextAlert]_vars

----------------------------------------------------------------------------
(* Two threads in track_value_opportunity: the polling loop (main.py:178)  *)
(* and a manual scan burst (discord_commands.py:107) call the one          *)
(* drift_tracker of advanced_monitors.py:391, and no lock is taken.  Each  *)
(* step is one access to self.sharp_prices together with the local         *)
(* computation that follows it; threads[t] holds the thread's position,    *)
(* its arguments and its local variables, and call holds the cache the     *)
(* two calls started from.                                                 *)

ThreadIds == {"poll", "burst"}

TrackThread(pc, args, local, signal) ==
    [pc |-> pc, args |-> args, local |-> local, signal |-> signal]

\* f"{event_id}:{outcome}" of the thread's call
KeyOf(t) == <<threads[t].args[1], threads[t].args[3]>>

\* the dict a thread stores for its quote
EntryOf(t) == <<[bookmaker |-> threads[t].args[2], odds |-> threads[t].args[4]]>>

GoTo(t, pc, local, signal) ==
    threads' = [threads EXCEPT ![t] = TrackThread(pc, threads[t].args, local, signal)]

\* lines 56-64 and 91-94: the branch taken and its membership test
TestKey(t) ==
    /\ threads[t].pc = "test_key"
    /\ LET clean_bookie == Lower(SplitFirst(threads[t].args[2]))
           bookie_class == classify_bookmaker(threads[t].args[2])
       IN  IF InList(clean_bookie, TrackedSharps)
           THEN IF sharp_prices[KeyOf(t)] = <<>>
                THEN GoTo(t, "store_new", <<>>, <<>>)
                ELSE GoTo(t, "read_prev", <<>>, <<>>)
           ELSE IF bookie_class = "soft"
           THEN IF sharp_prices[KeyOf(t)] # <<>>
                THEN GoTo(t, "read_price", <<>>, <<>>)
                ELSE GoTo(t, "done", <<>>, <<>>)
           ELSE GoTo(t, "done", <<>>, <<>>)
    /\ UNCHANGED <<sharp_prices, smart_rounding, previous_odds, sent, call, ret>>
    /\ UNCHANGED <<webhook_url, recent_alerts, now, is_scanning>>

\* lines 65-69
StoreNew(t) ==
    /\ threads[t].pc = "store_new"
    /\ sharp_prices' = [sharp_prices EXCEPT ![KeyOf(t)] = EntryOf(t)]
    /\ GoTo(t, "done", <<>>, <<>>)
    /\ UNCHANGED <<smart_rounding, previous_odds, sent, call, ret>>
    /\ UNCHANGED <<webhook_url, recent_alerts, now, is_scanning>>

\* lines 72-77: the stored price is read, the drop is computed from it
ReadPrev(t) ==
    /\ threads[t].pc = "read_prev"
    /\ LET prev_sharp == sharp_prices[KeyOf(t)][1].odds
           current_odds == threads[t].args[4]
       IN  IF RatLT(current_odds, prev_sharp)
           THEN IF prev_sharp = Zero
                THEN GoTo(t, "raised", <<prev_sharp>>, <<>>)
                ELSE LET drop_pct ==
                             RatMul(RatDiv(RatSub(prev_sharp, current_odds),
                                           prev_sharp), Rat(100))
                     IN  IF RatLT(Rat(3), drop_pct)
                         THEN GoTo(t, "store_update", <<prev_sharp>>, <<>>)
                         ELSE GoTo(t, "done", <<prev_sharp>>, <<>>)
           ELSE GoTo(t, "done", <<prev_sharp>>, <<>>)
    /\ UNCHANGED <<sharp_prices, smart_rounding, previous_odds, sent, call, ret>>
    /\ UNCHANGED <<webhook_url, recent_alerts, now, is_scanning>>

\* lines 84-88
StoreUpdate(t) ==
    /\ threads[t].pc = "store_update"
    /\ sharp_prices' = [sharp_prices EXCEPT ![KeyOf(t)] = EntryOf(t)]
    /\ GoTo(t, "done", threads[t].local, <<>>)
    /\ UNCHANGED <<smart_rounding, previous_odds, sent, call, ret>>
    /\ UNCHANGED <<webhook_url, recent_alerts, now, is_scanning>>

\* line 95
ReadPrice(t) ==
    /\ threads[t].pc = "read_price"
    /\ GoTo(t, "read_bookie", <<sharp_prices[KeyOf(t)][1].odds>>, <<>>)
    /\ UNCHANGED <<sharp_prices, smart_rounding, previous_odds, sent, call, ret>>
    /\ UNCHANGED <<webhook_url, recent_alerts, now, is_scanning>>

\* lines 96-124: the stored bookmaker is read, the gap is computed from the
\* price read before
ReadBookie(t) ==
    /\ threads[t].pc = "read_bookie"
    /\ LET sharp_price == threads[t].local[1]
           sharp_bookie == sharp_prices[KeyOf(t)][1].bookmaker
           current_odds == threads[t].args[4]
       IN  IF sharp_price = Zero
           THEN GoTo(t, "raised", threads[t].local, <<>>)
           ELSE LET value_gap_pct ==
                        RatMul(RatDiv(RatSub(current_odds, sharp_price),
                                      sharp_price), Rat(100))
                IN  IF RatLT(DRIFT_VALUE_THRESHOLD, value_gap_pct)
                    THEN GoTo(t, "done", threads[t].local,
                              <<[type |-> "value_bet",
                                 event_id |-> threads[t].args[1],
                                 outcome |-> threads[t].args[3],
                                 soft_bookmaker |-> threads[t].args[2],
                                 soft_odds |-> current_odds,
                                 sharp_bookmaker |-> sharp_bookie,
                                 sharp_odds |-> sharp_price,
                                 value_gap |-> value_gap_pct]>>)
                    ELSE GoTo(t, "done", threads[t].local, <<>>)
    /\ UNCHANGED <<sharp_prices, smart_rounding, previous_odds, sent, call, ret>>
    /\ UNCHANGED <<webhook_url, recent_alerts, now, is_scanning>>

\* a tracked sharp in two spellings and a soft
RaceBookmakers == {Pinnacle, BetfairExUk, Unibet}

\* 1.70, 1.80 and 2.20
RacePrices == {Odds(34), Odds(36), Odds(44)}

\* the cache before the two calls: empty, or pinnacle's 2.00 for Home
RaceCaches ==
    {EmptyCache,
     [EmptyCache EXCEPT ![<<"e1", "Home">>] =
          <<[bookmaker |-> Pinnacle, odds |-> Odds(40)]>>]}

RaceCalls ==
    {<<event_id, bookmaker, outcome, current_odds>> :
        event_id \in EventIds, bookmaker \in RaceBookmakers,
        outcome \in TrackOutcomes, current_odds \in RacePrices}

InitRace ==
    /\ sharp_prices \in RaceCaches
    /\ smart_rounding = DefaultSmartRounding
    /\ previous_odds = NoPreviousOdds
    /\ sent = <<>>
    /\ call = [op |-> "track_value_opportunity x 2", args |-> <<sharp_prices>>]
    /\ ret = <<>>
    /\ webhook_url = ""
    /\ recent_alerts = <<>>
    /\ now = 0
    /\ is_scanning = FALSE
    /\ threads \in [ThreadIds -> {TrackThread("test_key", c, <<>>, <<>>) : c \in RaceCalls}]

NextRace ==
    \E t \in ThreadIds :
        \/ TestKey(t)
        \/ StoreNew(t)
        \/ ReadPrev(t)
        \/ StoreUpdate(t)
        \/ ReadPrice(t)
        \/ ReadBookie(t)

SpecRace == InitRace /\ [][NextRace]_vars

----------------------------------------------------------------------------
(* ManualScanHandler: a command listener calls trigger_manual_scan, each   *)
(* accepted call starts a thread that runs _execute_scan_burst.  threads   *)
(* is the list of the threads started so far, each with its position, the  *)
(* time.time() - start_time it last measured and the path it took into     *)
(* the finally block.                                                      *)

\* settings.MANUAL_SCAN_DURATION, settings.MANUAL_SCAN_INTERVAL
MANUAL_SCAN_DURATION == 300

MANUAL_SCAN_INTERVAL == 10

\* threads the handler starts at most
MaxBursts == 2

\* seconds one fetch and the processing of its events can take
FetchSeconds == {90, 140}

BurstThread(pc, elapsed, path) == [pc |-> pc, elapsed |-> elapsed, path |-> path]

TriggerResult(status) == [status |-> status]

\* lines 45-65
trigger_manual_scan(scanning, started) ==
    IF scanning
    THEN [threads |-> started, result |-> TriggerResult("error")]
    ELSE [threads |-> Append(started, BurstThread("started", 0, "")),
          result |-> TriggerResult("started")]

\* DiscordCommandListener.handle_command: a scan command arrived
CallTriggerManualScan ==
    /\ call = Idle
    /\ Len(threads) < MaxBursts
    /\ call' = [op |-> "trigger_manual_scan", args |-> <<>>]
    /\ UNCHANGED <<sharp_prices, smart_rounding, previous_odds, sent, ret>>
    /\ UNCHANGED <<webhook_url, recent_alerts, now, is_scanning, threads>>

TriggerManualScan ==
    /\ call.op = "trigger_manual_scan"
    /\ ret = <<>>
    /\ \E r \in {trigger_manual_scan(is_scanning, threads)} :
           /\ threads' = r.threads
           /\ ret' = <<r.result>>
    /\ UNCHANGED <<sharp_prices, smart_rounding, previous_odds, sent, call>>
    /\ UNCHANGED <<webhook_url, recent_alerts, now, is_scanning>>

ReturnFromTrigger ==
    /\ call.op = "trigger_manual_scan"
    /\ ret # <<>>
    /\ call' = Idle
    /\ ret' = <<>>
    /\ UNCHANGED <<sharp_prices, smart_rounding, previous_odds, sent>>
    /\ UNCHANGED <<webhook_url, recent_alerts, now, is_scanning, threads>>

\* the thread b moves on
Burst(b, pc, elapsed, path) ==
    threads' = [threads EXCEPT ![b] = BurstThread(pc, elapsed, path)]

\* lines 74-83: the started thread gets to run
BurstBegin(b) ==
    /\ b \in DOMAIN threads
    /\ threads[b].pc = "started"
    /\ is_scanning' = TRUE
    /\ Burst(b, "loop", 0, "")
    /\ UNCHANGED <<sharp_prices, smart_rounding, previous_odds, sent, call, ret>>
    /\ UNCHANGED <<webhook_url, recent_alerts, now>>

\* lines 86-113: the duration has not elapsed; the fetch and the processing
\* of the events either return or raise
ScanOnce(b) ==
    /\ b \in DOMAIN threads
    /\ threads[b].pc = "loop"
    /\ threads[b].elapsed < MANUAL_SCAN_DURATION
    /\ \/ Burst(b, "sleep", threads[b].elapsed, "")
       \/ Burst(b, "finally", threads[b].elapsed, "exception")
    /\ UNCHANGED <<sharp_prices, smart_rounding, previous_odds, sent, call, ret>>
    /\ UNCHANGED <<webhook_url, recent_alerts, now, is_scanning>>

\* line 116, then line 86 reads the clock again
Sleep(b) ==
    /\ b \in DOMAIN threads
    /\ threads[b].pc = "sleep"
    /\ \E fetch \in FetchSeconds :
           Burst(b, "loop", threads[b].elapsed + fetch + MANUAL_SCAN_INTERVAL, "")
    /\ UNCHANGED <<sharp_prices, smart_rounding, previous_odds, sent, call, ret>>
    /\ UNCHANGED <<webhook_url, recent_alerts, now, is_scanning>>

\* line 86: the duration has elapsed
LoopExit(b) ==
    /\ b \in DOMAIN threads
    /\ threads[b].pc = "loop"
    /\ ~(threads[b].elapsed < MANUAL_SCAN_DURATION)
    /\ Burst(b, "finally", threads[b].elapsed, "normal")
    /\ UNCHANGED <<sharp_prices, smart_rounding, previous_odds, sent, call, ret>>
    /\ UNCHANGED <<webhook_url, recent_alerts, now, is_scanning>>

\* as BurstFinally, with the flag reset at the end of the try block only
BurstFinally_after_loop(b) ==
    /\ b \in DOMAIN threads
    /\ threads[b].pc = "finally"
    /\ is_scanning' = (IF threads[b].path = "normal" THEN FALSE ELSE is_scanning)
    /\ Burst(b, "done", threads[b].elapsed, threads[b].path)
    /\ UNCHANGED <<sharp_prices, smart_rounding, previous_odds, sent, call, ret>>
    /\ UNCHANGED <<webhook_url, recent_alerts, now>>

\* lines 121-132: _send_scan_report catches what its post raises
BurstFinally(b) ==
    /\ b \in DOMAIN threads
    /\ threads[b].pc = "finally"
    /\ is_scanning' = FALSE
    /\ Burst(b, "done", threads[b].elapsed, threads[b].path)
    /\ UNCHANGED <<sharp_prices, smart_rounding, previous_odds, sent, call, ret>>
    /\ UNCHANGED <<webhook_url, recent_alerts, now>>

\* a step of _execute_scan_burst in thread b
BurstStep(b) ==
    \/ BurstBegin(b)
    \/ ScanOnce(b)
    \/ Sleep(b)
    \/ LoopExit(b)
    \/ BurstFinally(b)

NextBurst ==
    \/ CallTriggerManualScan
    \/ TriggerManualScan
    \/ ReturnFromTrigger
    \/ \E b \in 1..MaxBursts : BurstStep(b)

SpecBurst == Init /\ [][NextBurst]_vars

\* every started thread is scheduled again and again, and its fetches and
\* sleeps return
SpecBurstFair == SpecBurst /\ \A b \in 1..MaxBursts : WF_vars(BurstStep(b))

----------------------------------------------------------------------------
(* Properties of the calculator's functions (SpecCalc).                    *)

IsCall(op) == call.op = op

Positive(x) == x[1] > 0

\* C1: for all prices a, b > 0, detect_two_way_arbitrage(a, b) returns
\* is_arb = true if and only if 1/a + 1/b < 1; when it is true the returned roi
\* equals (1/(1/a + 1/b) - 1) * 100, and when it is false the roi is 0.  With
\* a = an/ad and b = bn/bd, 1/a + 1/b = (ad*bn + bd*an) / (an*bn).
C1_TwoWayArbitrageIff ==
    (IsCall("detect_two_way_arbitrage") /\ Returned
       /\ Positive(call.args[1]) /\ Positive(call.args[2]))
    => LET a == call.args[1]
           b == call.args[2]
           r == ret[1]
           impliedNum == a[2] * b[1] + b[2] * a[1]
           impliedDen == a[1] * b[1]
       IN  /\ ~r.raised
           /\ r.is_arb <=> impliedNum < impliedDen
           /\ r.is_arb => r.roi[1] * impliedNum
                            = r.roi[2] * 100 * (impliedDen - impliedNum)
           /\ ~r.is_arb => r.roi = Zero

\* a = 2.10, b = 2.05: an arbitrage of roi 310/83 = 3.73 %
C1_Witness ==
    /\ IsCall("detect_two_way_arbitrage") /\ Returned
    /\ call.args = <<Odds(42), Odds(41)>>
    /\ ret[1].is_arb
    /\ ret[1].roi = <<310, 83>>

\* C2: for all prices h, d, w > 0, detect_three_way_arbitrage(h, d, w) returns
\* is_arb = true if and only if 1/h + 1/d + 1/w < 1; when it is true the
\* returned roi equals (1/(1/h + 1/d + 1/w) - 1) * 100, and when it is false
\* the roi is 0.
C2_ThreeWayArbitrageIff ==
    (IsCall("detect_three_way_arbitrage") /\ Returned
       /\ \A i \in 1..3 : Positive(call.args[i]))
    => LET h == call.args[1]
           d == call.args[2]
           w == call.args[3]
           r == ret[1]
           impliedNum == h[2] * d[1] * w[1] + d[2] * h[1] * w[1]
                           + w[2] * h[1] * d[1]
           impliedDen == h[1] * d[1] * w[1]
       IN  /\ ~r.raised
           /\ r.is_arb <=> impliedNum < impliedDen
           /\ r.is_arb => r.roi[1] * impliedNum
                            = r.roi[2] * 100 * (impliedDen - impliedNum)
           /\ ~r.is_arb => r.roi = Zero

\* three prices that are not all equal and form an arbitrage
C2_Witness ==
    /\ IsCall("detect_three_way_arbitrage") /\ Returned
    /\ \A i \in 1..3 : Positive(call.args[i])
    /\ call.args[1] # call.args[2]
    /\ ret[1].is_arb
    /\ RatLT(Zero, ret[1].roi)

\* C3: if any price passed to detect_two_way_arbitrage or
\* detect_three_way_arbitrage is <= 0, the call returns (no arbitrage, roi 0),
\* raises nothing, and reaches no division by a zero price.
C3_InvalidOddsNoArbitrage ==
    ((IsCall("detect_two_way_arbitrage") \/ IsCall("detect_three_way_arbitrage"))
       /\ Returned
       /\ \E i \in DOMAIN call.args : ~Positive(call.args[i]))
    => /\ ~ret[1].raised
       /\ ~ret[1].is_arb
       /\ ret[1].roi = Zero

\* a zero price next to a price that would otherwise make an arbitrage
C3_Witness ==
    /\ IsCall("detect_two_way_arbitrage") /\ Returned
    /\ call.args[1] = Zero
    /\ RatLT(Rat(2), call.args[2])
    /\ ret[1] = DetectReturn(FALSE, Zero)

TierStep(smart, amount) ==
    IF ~smart THEN 5
    ELSE IF RatLT(Rat(1000), amount) THEN 100
    ELSE IF RatLT(Rat(100), amount) THEN 50
    ELSE 5

\* C10: with smart rounding enabled a raw stake > 1000 becomes the nearest
\* multiple of 100, one with 100 < amount <= 1000 the nearest multiple of 50,
\* one <= 100 the nearest multiple of 5 (1234 -> 1200, 234 -> 250, 42 -> 40);
\* with smart rounding disabled every amount becomes the nearest multiple of
\* 5.  The result differs from the raw amount by at most half the tier step.
C10_RoundingTiers ==
    (IsCall("round_stake") /\ Returned)
    => LET amount == call.args[1]
           rounded == ret[1].stake
           step == TierStep(smart_rounding, amount)
       IN  /\ rounded % step = 0
           /\ 2 * Abs(rounded * amount[2] - amount[1]) <= step * amount[2]
           /\ (smart_rounding /\ amount = Rat(1234)) => rounded = 1200
           /\ (smart_rounding /\ amount = Rat(234)) => rounded = 250
           /\ (smart_rounding /\ amount = Rat(42)) => rounded = 40

\* 234 lies in the middle tier and goes up to 250
C10_Witness ==
    /\ IsCall("round_stake") /\ Returned
    /\ smart_rounding
    /\ call.args[1] = Rat(234)
    /\ ret[1].stake = 250

----------------------------------------------------------------------------
(* Properties of find_arbitrage_opportunities (Spec).                      *)

\* a find_arbitrage_opportunities call has ended, by return or by exception
FindEnded == IsCall("find_arbitrage_opportunities") /\ Returned

FindEvent == call.args[1]

FindQuotes == call.args[2]

FindRaised == ret[1].raised

FindOpps == ret[1].opportunities

\* the number of distinct outcome names among the quotes
NumOutcomes == Cardinality({FindQuotes[i].outcome : i \in DOMAIN FindQuotes})

Bookmakers(legs) == {legs[i].bookmaker : i \in DOMAIN legs}

\* the roi the arbitrage formula gives a list of positive prices
RoiOf(odds_list) ==
    RatMul(RatSub(RatDiv(One, SumSeq([i \in DOMAIN odds_list |->
                                        RatDiv(One, odds_list[i])])), One),
           Rat(100))

\* 1/a + 1/b < 1 for positive a = an/ad, b = bn/bd
IsTwoWayArb(a, b) == a[2] * b[1] + b[2] * a[1] < a[1] * b[1]

\* the index pairs <<i, j>> of C7: quote i is for the outcome named first,
\* quote j for the other outcome, the bookmakers differ, the two prices are an
\* arbitrage by the two-way test and the safety filters pass
QualifyingPairs ==
    {p \in (DOMAIN FindQuotes) \X (DOMAIN FindQuotes) :
        LET qa == FindQuotes[p[1]]
            qb == FindQuotes[p[2]]
        IN  /\ qa.outcome = FindQuotes[1].outcome
            /\ qb.outcome # FindQuotes[1].outcome
            /\ qa.bookmaker # qb.bookmaker
            /\ Positive(qa.odds) /\ Positive(qb.odds)
            /\ IsTwoWayArb(qa.odds, qb.odds)
            /\ apply_safety_filters(ENABLE_RISK_REPORTER, RoiOf(<<qa.odds, qb.odds>>), qa.bookmaker,
                                    qb.bookmaker, FindEvent.sport_key).passes}

BetOf(quote) ==
    [outcome |-> quote.outcome, odds |-> quote.odds, bookmaker |-> quote.bookmaker]

\* the returned list holds one Opportunity per qualifying pair and no other
OneOpportunityPerPair ==
    /\ Len(FindOpps) = Cardinality(QualifyingPairs)
    /\ \A k \in DOMAIN FindOpps :
          \E p \in QualifyingPairs :
             FindOpps[k].bets = <<BetOf(FindQuotes[p[1]]), BetOf(FindQuotes[p[2]])>>
    /\ \A p \in QualifyingPairs :
          Cardinality({k \in DOMAIN FindOpps :
                FindOpps[k].bets
                  = <<BetOf(FindQuotes[p[1]]), BetOf(FindQuotes[p[2]])>>})
          = Cardinality({q \in QualifyingPairs :
                /\ FindQuotes[q[1]] = FindQuotes[p[1]]
                /\ FindQuotes[q[2]] = FindQuotes[p[2]]})

\* C4: find_arbitrage_opportunities never raises because a quote of the event
\* has a price <= 0, whatever the tier of the bookmaker quoting it and whatever
\* the tracker state earlier calls left: no returned Opportunity contains such
\* a price, and the other combinations are still tested and returned.
C4_InvalidPriceContained ==
    (FindEnded /\ \E i \in DOMAIN FindQuotes : ~Positive(FindQuotes[i].odds))
    => /\ ~FindRaised
       /\ \A k \in DOMAIN FindOpps : \A i \in DOMAIN FindOpps[k].bets :
             Positive(FindOpps[k].bets[i].odds)
       /\ NumOutcomes = 2 => OneOpportunityPerPair

\* C5: the test is selected by the number of distinct outcome names among the
\* event's quotes: exactly 2 uses the two-way test, exactly 3 the three-way
\* test, and any other count returns an empty opportunity list.
C5_TestByOutcomeCount ==
    FindEnded
    => /\ NumOutcomes = 2 => ret[1].test = "two_way"
       /\ NumOutcomes = 3 => ret[1].test = "three_way"
       /\ NumOutcomes \notin {2, 3}
             => ~FindRaised /\ ret[1].test = "none" /\ FindOpps = <<>>

\* C5 on the calls that return: it fails only through the exception of C4
C5_OnReturn ==
    (FindEnded /\ ~FindRaised)
    => /\ NumOutcomes = 2 => ret[1].test = "two_way"
       /\ NumOutcomes = 3 => ret[1].test = "three_way"
       /\ NumOutcomes \notin {2, 3} => ret[1].test = "none" /\ FindOpps = <<>>

\* C6 as claimed: in every Opportunity returned, two-leg or three-leg, the
\* bookmakers of its bets are pairwise distinct.
C6_PairwiseDistinct ==
    FindEnded
    => \A k \in DOMAIN FindOpps :
          Cardinality(Bookmakers(FindOpps[k].bets)) = Len(FindOpps[k].bets)

\* C6 as amended: the two bookmakers of a two-leg Opportunity are distinct, and
\* the three legs of a three-leg Opportunity name at least two distinct
\* bookmakers (two of its legs may share one).
C6_DistinctAmended ==
    FindEnded
    => \A k \in DOMAIN FindOpps :
          /\ Len(FindOpps[k].bets) \in {2, 3}
          /\ Cardinality(Bookmakers(FindOpps[k].bets)) >= 2

\* a returned three-leg Opportunity with two legs on one bookmaker
C6_Witness ==
    /\ FindEnded
    /\ \E k \in DOMAIN FindOpps :
          /\ Len(FindOpps[k].bets) = 3
          /\ Cardinality(Bookmakers(FindOpps[k].bets)) = 2

\* C7: for an event with exactly two distinct outcomes and all prices > 0 the
\* returned list contains exactly one Opportunity for each pair of quotes from
\* different bookmakers that is an arbitrage by the two-way test and passes
\* the safety filters, and no other Opportunity; the single pair X@2.10 /
\* Y@2.05 yields exactly one.
C7_OneOpportunityPerPair ==
    (FindEnded /\ NumOutcomes = 2
       /\ \A i \in DOMAIN FindQuotes : Positive(FindQuotes[i].odds))
    => /\ ~FindRaised
       /\ OneOpportunityPerPair
       /\ FindQuotes = <<Quote(Unibet, "Home", 42), Quote(Kwiff, "Away", 41)>>
             => Len(FindOpps) = 1

\* C7 on the calls that return: it fails only through the exception of C4
C7_OnReturn ==
    (FindEnded /\ ~FindRaised /\ NumOutcomes = 2
       /\ \A i \in DOMAIN FindQuotes : Positive(FindQuotes[i].odds))
    => /\ OneOpportunityPerPair
       /\ FindQuotes = <<Quote(Unibet, "Home", 42), Quote(Kwiff, "Away", 41)>>
             => Len(FindOpps) = 1

\* the combinations of one quote per outcome with at least two bookmakers
MixedTriples ==
    {{FindQuotes[i], FindQuotes[j], FindQuotes[l]} :
        <<i, j, l>> \in {t \in (DOMAIN FindQuotes) \X (DOMAIN FindQuotes)
                                 \X (DOMAIN FindQuotes) :
            /\ Cardinality({FindQuotes[t[1]].outcome, FindQuotes[t[2]].outcome,
                            FindQuotes[t[3]].outcome}) = 3
            /\ Cardinality({FindQuotes[t[1]].bookmaker, FindQuotes[t[2]].bookmaker,
                            FindQuotes[t[3]].bookmaker}) >= 2}}

TestedTriples ==
    {{ret[1].tested[k][1], ret[1].tested[k][2], ret[1].tested[k][3]} :
        k \in DOMAIN ret[1].tested}

\* C8: for an event with exactly three distinct outcomes, a combination of one
\* quote per outcome is tested for arbitrage if and only if its three legs
\* involve at least two distinct bookmakers.
C8_TestedIffTwoBookmakers ==
    (FindEnded /\ NumOutcomes = 3)
    => /\ ret[1].test = "three_way"
       /\ TestedTriples = MixedTriples

\* C8 on the calls that return: it fails only through the exception of C4
C8_OnReturn ==
    (FindEnded /\ ~FindRaised /\ NumOutcomes = 3)
    => /\ ret[1].test = "three_way"
       /\ TestedTriples = MixedTriples

----------------------------------------------------------------------------
(* Properties of the safety filters and the classifier (SpecCalc).         *)

FilterArgs ==
    [risk_reporter |-> call.args[1], roi |-> call.args[2],
     bookmaker_a |-> call.args[3], bookmaker_b |-> call.args[4],
     sport |-> call.args[5]]

FilterEnded == IsCall("apply_safety_filters") /\ Returned

RoiWithinThresholds(roi) ==
    RatLE(MIN_ROI_THRESHOLD, roi) /\ RatLE(roi, MAX_ROI_THRESHOLD)

\* C11: apply_safety_filters tests the profit ceiling, then the profit
\* floor, then the rule mismatch, and returns at the first that fails: a roi
\* above MAX_ROI_THRESHOLD is rejected as PALPABLE_ERROR and a roi below
\* MIN_ROI_THRESHOLD as LOW_PROFIT whatever the bookmakers and the sport,
\* RULE_MISMATCH is only returned for a roi within the two thresholds, and a
\* roi equal to a threshold is not rejected by that threshold.
C11_FilterOrder ==
    FilterEnded =>
        LET roi == FilterArgs.roi
            r == ret[1]
        IN  /\ r.passes <=> r.reason = "None"
            /\ RatLT(MAX_ROI_THRESHOLD, roi)
                  => ~r.passes /\ r.reason = "PALPABLE_ERROR"
            /\ RatLT(roi, MIN_ROI_THRESHOLD)
                  => ~r.passes /\ r.reason = "LOW_PROFIT"
            /\ r.reason = "RULE_MISMATCH" => RoiWithinThresholds(roi)
            /\ roi = MAX_ROI_THRESHOLD => r.reason # "PALPABLE_ERROR"
            /\ roi = MIN_ROI_THRESHOLD => r.reason # "LOW_PROFIT"

\* a roi of 20 on a basketball pair whose rules differ: rejected by the ceiling
C11_Witness ==
    /\ FilterEnded
    /\ FilterArgs.risk_reporter
    /\ FilterArgs.roi = Rat(20)
    /\ FilterArgs.bookmaker_a = DraftKings /\ FilterArgs.bookmaker_b = Kwiff
    /\ FilterArgs.sport = BasketballNba
    /\ ret[1] = FilterResult(FALSE, "PALPABLE_ERROR")

IsBasketball(sport) == Contains(Lower(sport), <<"b", "a", "s", "k", "e", "t", "b", "a", "l", "l">>)

IsSoccer(sport) ==
    \/ Contains(Lower(sport), <<"s", "o", "c", "c", "e", "r">>)
    \/ Contains(Lower(sport), <<"f", "o", "o", "t", "b", "a", "l", "l">>)

\* the rules of the pair as RiskReporter._get_settlement_rule resolves them
\* are both known and differ
DatabaseRulesDiffer(bookmaker_a, bookmaker_b, sport) ==
    LET rule_a == _get_settlement_rule(bookmaker_a, sport)
        rule_b == _get_settlement_rule(bookmaker_b, sport)
    IN  rule_a # "unknown" /\ rule_b # "unknown" /\ rule_a # rule_b

\* C12: with rule checking enabled, a basketball sport and a roi within the
\* thresholds, a pair whose rules, as the RuleDatabase lookup resolves them
\* (suffix stripped, case-insensitive substring match either way), are both
\* known and differ is rejected with RULE_MISMATCH.
C12_DatabaseMismatchRejected ==
    ( /\ FilterEnded
      /\ FilterArgs.risk_reporter
      /\ IsBasketball(FilterArgs.sport)
      /\ RoiWithinThresholds(FilterArgs.roi)
      /\ DatabaseRulesDiffer(FilterArgs.bookmaker_a, FilterArgs.bookmaker_b,
                             FilterArgs.sport) )
    => ret[1] = FilterResult(FALSE, "RULE_MISMATCH")

\* the rules of the pair as the filter reads them (dict.get on the key as
\* given) are both known and differ
TableRulesDiffer(bookmaker_a, bookmaker_b) ==
    LET rule_a == OvertimeRule(bookmaker_a)
        rule_b == OvertimeRule(bookmaker_b)
    IN  rule_a # "unknown" /\ rule_b # "unknown" /\ rule_a # rule_b

HasUnknownRule(bookmaker_a, bookmaker_b, sport) ==
    \/ OvertimeRule(bookmaker_a) = "unknown"
    \/ OvertimeRule(bookmaker_b) = "unknown"
    \/ _get_settlement_rule(bookmaker_a, sport) = "unknown"
    \/ _get_settlement_rule(bookmaker_b, sport) = "unknown"

\* the part of C13 that does not speak of the high-risk list
RuleMismatchOnlyFor ==
    LET a == FilterArgs.bookmaker_a
        b == FilterArgs.bookmaker_b
        sport == FilterArgs.sport
        rejected == ret[1].reason = "RULE_MISMATCH"
    IN  /\ rejected => /\ FilterArgs.risk_reporter
                       /\ IsBasketball(sport)
                       /\ TableRulesDiffer(a, b)
        /\ HasUnknownRule(a, b, sport) => ~rejected
        /\ (IsSoccer(sport) /\ ~IsBasketball(sport)) => ~rejected
        /\ ~FilterArgs.risk_reporter => ~rejected

\* C13: apply_safety_filters returns RULE_MISMATCH only when rule checking
\* is enabled, the sport is basketball and both rules are known and differ;
\* a pair with an unknown rule, a soccer or football pair, a pair containing
\* a bookmaker of the high-risk list, and any pair when rule checking is
\* disabled, is never rejected by the third filter.
C13_RuleMismatchOnly ==
    FilterEnded =>
        /\ RuleMismatchOnlyFor
        /\ HighRiskFlagged(FilterArgs.bookmaker_a, FilterArgs.bookmaker_b)
              => ret[1].reason # "RULE_MISMATCH"

\* C13 as amended: as above, except that a pair containing a bookmaker of
\* the high-risk list is not rejected on that account: it is rejected by the
\* third filter exactly when a pair without one would be, and passes with a
\* roi within the thresholds otherwise.
C13_HighRiskOnlyFlagged ==
    FilterEnded =>
        /\ RuleMismatchOnlyFor
        /\ ( /\ HighRiskFlagged(FilterArgs.bookmaker_a, FilterArgs.bookmaker_b)
             /\ RoiWithinThresholds(FilterArgs.roi)
             /\ ~( /\ FilterArgs.risk_reporter
                   /\ IsBasketball(FilterArgs.sport)
                   /\ TableRulesDiffer(FilterArgs.bookmaker_a,
                                       FilterArgs.bookmaker_b) ) )
           => ret[1] = FilterResult(TRUE, "None")

\* a soccer pair with opposite known rules, one of them high-risk, passes
C13_Witness ==
    /\ FilterEnded
    /\ FilterArgs.risk_reporter
    /\ FilterArgs.roi = Rat(3)
    /\ FilterArgs.bookmaker_a = DraftKings /\ FilterArgs.bookmaker_b = Kwiff
    /\ FilterArgs.sport = SoccerEpl
    /\ ret[1] = FilterResult(TRUE, "None")

\* the tier each bookmaker key of the model has by the rule of C15
SharpNames == {Pinnacle, PinnacleTitle, BetfairExUk, Bet365}

SoftNames == {Unibet, WilliamhillUs}

TierOf(bookmaker) ==
    IF bookmaker \in SharpNames THEN "sharp"
    ELSE IF bookmaker \in SoftNames THEN "soft"
    ELSE "unknown"

TagTextOf(tier_a, tier_b) ==
    IF {tier_a, tier_b} = {"sharp", "soft"} THEN "HIGH CONFIDENCE"
    ELSE IF {tier_a, tier_b} = {"soft"} THEN "FAST MOVE"
    ELSE IF {tier_a, tier_b} = {"sharp"} THEN "SHARP ARB"
    ELSE "STANDARD"

C16_SharpWhenExactlyOne ==
    (IsCall("get_sharp_bookmaker") /\ Returned) =>
        LET a == call.args[1]
            b == call.args[2]
        IN  ret[1].sharp =
               IF TierOf(a) = "sharp" /\ TierOf(b) # "sharp" THEN <<a>>
               ELSE IF TierOf(b) = "sharp" /\ TierOf(a) # "sharp" THEN <<b>>
               ELSE <<>>

\* C16 for the pairs that are not both sharp
C16_NotBothSharp ==
    ( /\ IsCall("get_sharp_bookmaker") /\ Returned
      /\ ~(TierOf(call.args[1]) = "sharp" /\ TierOf(call.args[2]) = "sharp") )
    => LET a == call.args[1]
           b == call.args[2]
       IN  ret[1].sharp =
              IF TierOf(a) = "sharp" THEN <<a>>
              ELSE IF TierOf(b) = "sharp" THEN <<b>>
              ELSE <<>>

----------------------------------------------------------------------------
(* Properties of the returned Opportunity records (Spec).                  *)

BetOdds(opportunity) == [i \in DOMAIN opportunity.bets |-> opportunity.bets[i].odds]

\* Stake_i = (Total * (1 / Odds_i)) / sum(1 / Odds_all), rounded as configured
ExpectedStake(odds_list, i) ==
    RoundStake(smart_rounding,
               RatDiv(RatMul(Rat(DEFAULT_TOTAL_INVESTMENT), RatDiv(One, odds_list[i])),
                      SumSeq([j \in DOMAIN odds_list |-> RatDiv(One, odds_list[j])])))

\* C14: every Opportunity find_arbitrage_opportunities returns has a roi equal
\* to (1 / sum(1 / odds_i) - 1) * 100 over the prices stored in its own bets,
\* a roi within [MIN_ROI_THRESHOLD, MAX_ROI_THRESHOLD], and one stake per bet,
\* computed from those same prices in the order of the bets; each bet is a
\* quote of the event.
C14_RoiAndStakesFromOwnBets ==
    FindEnded =>
        \A k \in DOMAIN FindOpps :
            LET o == FindOpps[k]
                odds_list == BetOdds(o)
            IN  /\ \A i \in DOMAIN o.bets :
                      /\ Positive(o.bets[i].odds)
                      /\ \E q \in DOMAIN FindQuotes : BetOf(FindQuotes[q]) = o.bets[i]
                /\ o.roi = RoiOf(odds_list)
                /\ RoiWithinThresholds(o.roi)
                /\ DOMAIN o.stakes = DOMAIN o.bets
                /\ \A i \in DOMAIN o.stakes : o.stakes[i] = ExpectedStake(odds_list, i)

\* Home 3.20 against Away 1.50: roi 100/47, stakes 300 and 700 in leg order
C14_Witness ==
    /\ FindEnded
    /\ \E k \in DOMAIN FindOpps :
          /\ BetOdds(FindOpps[k]) = <<Odds(64), Odds(30)>>
          /\ FindOpps[k].roi = Norm(100, 47)
          /\ FindOpps[k].stakes = <<300, 700>>

----------------------------------------------------------------------------
(* Properties of track_odds_drift (SpecDrift).                             *)

DriftEnded == IsCall("track_odds_drift") /\ Returned

\* C17: after every call track_odds_drift(event_id, current) with drift
\* tracking enabled, whether or not it returned a drift signal, the stored
\* previous map of event_id equals current.
C17_PreviousIsCurrent ==
    (DriftEnded /\ ENABLE_DRIFT_TRACKER)
        => previous_odds[call.args[1]] = <<call.args[2]>>

\* C17 for the calls that return no signal and do not raise
C17_StoredUnlessSignal ==
    (DriftEnded /\ ENABLE_DRIFT_TRACKER /\ ~ret[1].raised /\ ret[1].alert = <<>>)
        => previous_odds[call.args[1]] = <<call.args[2]>>

----------------------------------------------------------------------------
(* Properties of track_value_opportunity (SpecTrack).                      *)

TrackEnded == IsCall("track_value_opportunity") /\ Returned

TrackKey == <<call.args[1], call.args[3]>>

TrackBookmaker == call.args[2]

TrackOdds == call.args[4]

\* the quote of the call is one of a tracked sharp bookmaker
IsTrackedSharpQuote ==
    TrackBookmaker \in {Pinnacle, BetfairExUk}

\* price is more than pct percent below stored, a positive price
MoreThanPercentBelow(price, stored, pct) ==
    /\ Positive(stored)
    /\ RatLT(RatMul(Rat(pct), stored), RatMul(Rat(100), RatSub(stored, price)))

QuoteEntry == <<[bookmaker |-> TrackBookmaker, odds |-> TrackOdds]>>

\* what one step may do to the stored consensus of key k
ConsensusStep(k) ==
    LET before == sharp_prices[k]
        after == sharp_prices'[k]
        quoted == /\ call.op = "track_value_opportunity"
                  /\ ret = <<>>
                  /\ IsTrackedSharpQuote
                  /\ TrackKey = k
    IN  /\ after # before => quoted /\ after = QuoteEntry
        /\ (before = <<>> /\ quoted) => after = QuoteEntry
        /\ before # <<>> =>
              /\ after # <<>>
              /\ RatLE(after[1].odds, before[1].odds)
              /\ after # before
                    <=> (quoted /\ MoreThanPercentBelow(TrackOdds, before[1].odds, 3))

\* C18: the stored sharp consensus of a key is set by the first tracked-sharp
\* quote for the key and afterwards changes only when a tracked-sharp quote
\* is more than 3% below the stored price, to that lower price; the stored
\* price of a key never increases and never moves on a drop of 3% or less.
C18_ConsensusOnlyDrops == [][\A k \in Keys : ConsensusStep(k)]_vars

\* a tracked-sharp quote of 1.85 against a stored 1.90 of the other tracked
\* sharp: the call has returned and the stored entry is as it was
C18_Witness ==
    /\ TrackEnded
    /\ TrackBookmaker = BetfairExUk
    /\ TrackOdds = Odds(37)
    /\ sharp_prices[TrackKey] = <<[bookmaker |-> Pinnacle, odds |-> Odds(38)]>>

\* (soft_price - sharp_price) / sharp_price * 100, for sharp_price # 0
GapPercent(soft_price, sharp_price) ==
    RatMul(RatDiv(RatSub(soft_price, sharp_price), sharp_price), Rat(100))

\* C19: track_value_opportunity returns a value-bet signal for a soft-tier
\* quote if and only if a sharp consensus is stored for the key of the quote
\* and (soft_price - sharp_price) / sharp_price * 100 > DRIFT_VALUE_THRESHOLD;
\* the signal carries the soft price, the stored sharp price and bookmaker,
\* and the gap; a quote of another tier gets no signal.  A stored price of 0,
\* for which the gap has no value, is the one case where the call raises.
C19_ValueSignalIff ==
    TrackEnded =>
        LET stored == sharp_prices[TrackKey]
            signal == ret[1].signal
            soft == TierOf(TrackBookmaker) = "soft"
        IN  /\ ret[1].raised => stored # <<>> /\ stored[1].odds = Zero
            /\ (~soft /\ ~ret[1].raised) => signal = <<>>
            /\ (soft /\ stored = <<>>) => signal = <<>> /\ ~ret[1].raised
            /\ (soft /\ stored # <<>> /\ stored[1].odds # Zero) =>
                  LET gap == GapPercent(TrackOdds, stored[1].odds)
                  IN  /\ ~ret[1].raised
                      /\ signal # <<>> <=> RatLT(DRIFT_VALUE_THRESHOLD, gap)
                      /\ signal # <<>> =>
                            /\ signal[1].soft_bookmaker = TrackBookmaker
                            /\ signal[1].soft_odds = TrackOdds
                            /\ signal[1].sharp_odds = stored[1].odds
                            /\ signal[1].sharp_bookmaker = stored[1].bookmaker
                            /\ signal[1].value_gap = gap
                            /\ signal[1].event_id = call.args[1]
                            /\ signal[1].outcome = call.args[3]

\* the soft quote of 1.90 against a stored sharp 1.80: a signal, gap 50/9
C19_Witness ==
    /\ TrackEnded
    /\ TrackBookmaker = Unibet
    /\ TrackOdds = Odds(38)
    /\ sharp_prices[TrackKey] # <<>>
    /\ sharp_prices[TrackKey][1].odds = Odds(36)
    /\ ret[1].signal # <<>>
    /\ ret[1].signal[1].value_gap = Norm(50, 9)

----------------------------------------------------------------------------
(* Properties of the scan of one event (SpecScan).                         *)

ScanEnded == IsCall("scan_event") /\ Returned

\* the records the iteration hands on: the alerts given to send_drift_alert
\* and the Opportunity records added to the returned list
HandedOn ==
    {sent[i] : i \in DOMAIN sent}
        \cup {ret[1].opportunities[i] : i \in DOMAIN ret[1].opportunities}

\* C20: every value-bet signal track_value_opportunity produces while
\* find_arbitrage_opportunities processes an event is handed on in that cycle,
\* returned to the caller or sent as a drift alert; none is dropped.
C20_SignalsHandedOn ==
    ScanEnded =>
        \A i \in DOMAIN ret[1].signals : ret[1].signals[i] \in HandedOn

\* what is handed on is never a value-bet signal: the drift alerts sent are
\* plain drift records of track_odds_drift
C20_OnlyPlainDriftSent ==
    ScanEnded =>
        /\ Len(sent) <= 1
        /\ \A i \in DOMAIN sent :
              /\ "type" \notin DOMAIN sent[i]
              /\ "drift_percent" \in DOMAIN sent[i]

----------------------------------------------------------------------------
(* Properties of the notifier's cooldown cache (SpecAlert).                *)

SendEnded == IsCall("send_arbitrage_alert") /\ Returned

AlertSet(recent) == {recent[i] : i \in DOMAIN recent}

\* the entries of entries that fewer than n others of them are later than
MostRecent(entries, n) ==
    {x \in entries : Cardinality({y \in entries : y.at > x.at}) < n}

\* the cache with the alert of this call put in, before any cleanup
WithThisAlert ==
    {x \in AlertSet(recent_alerts) : x.event_id # call.args[1]}
        \cup {AlertEntry(call.args[1], now)}

\* a call marks its event as alerted
MarksAlerted == SendArbitrageAlert /\ ret'[1].posted

\* C21: the cooldown cache never holds more than 100 entries, and when
\* marking an event pushes it above 100 the entries kept are exactly the 100
\* with the most recent alert times.
C21_CacheKeepsMostRecent ==
    /\ [](Len(recent_alerts) <= 100)
    /\ [][MarksAlerted =>
             /\ Cardinality(AlertSet(recent_alerts')) = Len(recent_alerts')
             /\ AlertSet(recent_alerts') =
                    IF Cardinality(WithThisAlert) > 100
                    THEN MostRecent(WithThisAlert, 100)
                    ELSE WithThisAlert]_vars

\* event 1, the oldest of 100, was alerted again and then event 101 came:
\* event 2 is the one evicted
C21_Witness ==
    /\ SendEnded
    /\ ret[1].posted
    /\ call.args[1] = 101
    /\ Len(recent_alerts) = 100
    /\ HasAlert(recent_alerts, 1)
    /\ ~HasAlert(recent_alerts, 2)

----------------------------------------------------------------------------
(* Properties of two concurrent track_value_opportunity calls (SpecRace).  *)

RaceEnded == \A t \in ThreadIds : threads[t].pc \in {"done", "raised"}

\* the cache after the call of thread first and then the call of thread
\* second, each run from start to end
InOrder(first, second) ==
    LET a == threads[first].args
        b == threads[second].args
        after_first == track_value_opportunity(call.args[1], a[1], a[2], a[3],
                                               a[4]).sharp_prices
    IN  track_value_opportunity(after_first, b[1], b[2], b[3], b[4]).sharp_prices

\* C22: the read-modify-write on the shared sharp-price cache is mutually
\* exclusive between the polling loop and a manual scan burst: when two
\* track_value_opportunity calls of the two threads have ended, the cache is
\* the one that one of the two sequential orders of the calls produces.
C22_SequentialOutcome ==
    RaceEnded =>
        \/ sharp_prices = InOrder("poll", "burst")
        \/ sharp_prices = InOrder("burst", "poll")

\* C22, second part: a stored price is never replaced by a higher one
C22_NeverRaised ==
    [][\A k \in Keys :
          (sharp_prices[k] # <<>> /\ sharp_prices'[k] # sharp_prices[k])
              => RatLT(sharp_prices'[k][1].odds, sharp_prices[k][1].odds)]_vars

\* C25: with a webhook configured and calls from one thread,
\* send_arbitrage_alert never sends two alerts for the same event_id less than
\* ALERT_COOLDOWN_MINUTES apart, whatever the sequence of calls and the
\* number of distinct events; an event is marked as alerted only when its
\* send succeeded.
C25_NoResendInCooldown ==
    webhook_url # "" =>
        \A i \in DOMAIN sent, j \in DOMAIN sent :
            (i < j /\ sent[i].event_id = sent[j].event_id)
                => sent[j].at - sent[i].at >= ALERT_COOLDOWN_MINUTES * 60

\* what does hold: a call that sends nothing leaves the cache as it was, and
\* an event the cache still holds is not alerted again within the cooldown
C25_CooldownWhileCached ==
    [][SendArbitrageAlert =>
          /\ ~ret'[1].posted => recent_alerts' = recent_alerts
          /\ (ret'[1].posted /\ HasAlert(recent_alerts, call.args[1]))
                => now - AlertTime(recent_alerts, call.args[1])
                       >= ALERT_COOLDOWN_MINUTES * 60]_vars

----------------------------------------------------------------------------
(* Properties of the manual scan handler (SpecBurst, SpecBurstFair).       *)

Started(b) == b \in DOMAIN threads

Ended(b) == b \in DOMAIN threads /\ threads[b].pc = "done"

\* the thread b leaves _execute_scan_burst in this step
Ends(b) == Started(b) /\ ~Ended(b) /\ threads'[b].pc = "done"

\* C23: a manual scan burst that has started ends, and not on the normal
\* path before its duration has elapsed; when it ends, on the normal and on
\* the exception path alike, is_scanning is false again, so that the next
\* trigger_manual_scan that finds it so is accepted.
C23_BurstEndsAndResets ==
    /\ \A b \in 1..MaxBursts : Started(b) ~> Ended(b)
    /\ [](\A b \in DOMAIN threads :
              (Ended(b) /\ threads[b].path = "normal")
                  => threads[b].elapsed >= MANUAL_SCAN_DURATION)
    /\ [][\A b \in DOMAIN threads : Ends(b) => ~is_scanning']_vars
    /\ [][(TriggerManualScan /\ ~is_scanning)
              => (ret'[1].status = "started" /\ Len(threads') = Len(threads) + 1)]_vars

\* one burst ended after its duration, and the one a later command started
\* ended by an exception; the flag is down
C23_Witness ==
    /\ Len(threads) = 2
    /\ Ended(1) /\ threads[1].path = "normal"
    /\ Ended(2) /\ threads[2].path = "exception"
    /\ ~is_scanning

\* the threads that were started and have not ended
Bursts == {b \in DOMAIN threads : threads[b].pc # "done"}

\* C26: at most one manual scan burst runs at any time: a
\* trigger_manual_scan issued while a burst is started or running returns
\* the 'already in progress' error and starts no second thread.
C26_AtMostOneBurst == Cardinality(Bursts) <= 1

\* what does hold: a trigger that finds the flag set is refused
C26_RefusedWhenFlagSet ==
    [][(TriggerManualScan /\ is_scanning)
           => (ret'[1].status = "error" /\ threads' = threads)]_vars

----------------------------------------------------------------------------
(* Which quotes the value-bet tracker stores and what a call may touch     *)
(* (SpecTrack).                                                            *)

\* the step in which the call in progress runs
TrackRuns == IsCall("track_value_opportunity") /\ ret = <<>> /\ ret' # <<>>

\* C24: a quote of any bookmaker the classifier labels sharp is treated as
\* a sharp quote by the value-bet tracker: if no consensus is stored for its
\* key, the quote becomes the stored consensus.
C24_SharpTierSetsConsensus ==
    [][(TrackRuns /\ TierOf(TrackBookmaker) = "sharp"
                  /\ sharp_prices[TrackKey] = <<>>)
           => sharp_prices'[TrackKey] = QuoteEntry]_vars

\* C24 as the code has it: with no consensus stored for its key, a quote
\* becomes the stored consensus exactly when its bookmaker is on the
\* tracker's own list (pinnacle, betfair), and the key stays without
\* consensus otherwise; the bookmakers of that list are all of the
\* classifier's sharp tier, and bet365, sharp for the classifier, is not one
\* of them.
C24_TrackedSharpSetsConsensus ==
    /\ [][(TrackRuns /\ sharp_prices[TrackKey] = <<>>) =>
             /\ IsTrackedSharpQuote => sharp_prices'[TrackKey] = QuoteEntry
             /\ ~IsTrackedSharpQuote => sharp_prices'[TrackKey] = <<>>]_vars
    /\ [](IsCall("track_value_opportunity") =>
             /\ IsTrackedSharpQuote => TierOf(TrackBookmaker) = "sharp"
             /\ TrackBookmaker = Bet365 =>
                   (TierOf(TrackBookmaker) = "sharp" /\ ~IsTrackedSharpQuote))

\* a bet365 quote on an empty cache: the call has returned, nothing is stored
C24_Witness ==
    /\ TrackEnded
    /\ TrackBookmaker = Bet365
    /\ Positive(TrackOdds)
    /\ \A k \in Keys : sharp_prices[k] = <<>>

----------------------------------------------------------------------------
(* What the returned list depends on, and what it promises (Spec).         *)

AllPricesPositive == \A i \in DOMAIN FindQuotes : Positive(FindQuotes[i].odds)

\* what the call returns on a tracker that has seen nothing yet
OnFreshTracker ==
    find_arbitrage_opportunities(EmptyCache, smart_rounding, FindEvent, FindQuotes)

\* C27: for quotes whose prices are all > 0 the list of Opportunities that
\* find_arbitrage_opportunities returns is a function of the event and its
\* quotes only: the call returns the list it returns on a fresh tracker,
\* whatever the sharp-price cache and the calls before it.
C27_FunctionOfQuotes ==
    (FindEnded /\ AllPricesPositive)
    => /\ ~FindRaised
       /\ FindOpps = OnFreshTracker.opportunities

\* C27 on the calls that return: it fails only through the exception of C4
C27_OnReturn ==
    (FindEnded /\ AllPricesPositive /\ ~FindRaised)
    => FindOpps = OnFreshTracker.opportunities

\* C28: with rule checking enabled, no three-leg Opportunity returned for a
\* basketball-family sport contains two legs whose bookmakers have different
\* known settlement rules: the rule-mismatch filter covers every pair of the
\* three legs' bookmakers, the middle leg included.
C28_NoMismatchedLegs ==
    (FindEnded /\ ENABLE_RISK_REPORTER /\ IsBasketball(FindEvent.sport_key))
    => \A k \in DOMAIN FindOpps :
          Len(FindOpps[k].bets) = 3
          => \A i \in 1..3, j \in 1..3 :
                ~TableRulesDiffer(FindOpps[k].bets[i].bookmaker,
                                  FindOpps[k].bets[j].bookmaker)

\* what does hold: the first and the last leg never have different known rules
C28_OuterLegsMatch ==
    (FindEnded /\ ENABLE_RISK_REPORTER /\ IsBasketball(FindEvent.sport_key))
    => \A k \in DOMAIN FindOpps :
          LET bets == FindOpps[k].bets
          IN  ~TableRulesDiffer(bets[1].bookmaker, bets[Len(bets)].bookmaker)

\* the sum of the rounded stakes
TotalStaked(opportunity) ==
    SumSeq([i \in DOMAIN opportunity.stakes |-> Rat(opportunity.stakes[i])])

\* what leg i pays when its outcome wins
Payout(opportunity, i) ==
    RatMul(Rat(opportunity.stakes[i]), opportunity.bets[i].odds)

\* C29: for every returned Opportunity the rounded stakes still lock in a
\* result that is not negative: every stake is strictly positive and every
\* leg pays at least the sum of all rounded stakes, so that the profit the
\* notifier derives from leg 0 is a lower bound for every outcome.
C29_RoundedStakesLockIn ==
    FindEnded
    => \A k \in DOMAIN FindOpps :
          \A i \in DOMAIN FindOpps[k].stakes :
              /\ FindOpps[k].stakes[i] > 0
              /\ RatLE(TotalStaked(FindOpps[k]), Payout(FindOpps[k], i))

\* what does hold: every stake of a returned Opportunity is positive
C29_StakesPositive ==
    FindEnded
    => \A k \in DOMAIN FindOpps :
          \A i \in DOMAIN FindOpps[k].stakes : FindOpps[k].stakes[i] > 0

\* C30: a call with a quote of a bookmaker that is not a tracked sharp leaves
\* the sharp-price cache unchanged, whether or not it returns a signal; a
\* call with a tracked-sharp quote never returns a signal; and no call changes
\* the entry of any key other than its own.
C30_TrackerFrame ==
    [][/\ TrackRuns =>
             /\ ~IsTrackedSharpQuote => sharp_prices' = sharp_prices
             /\ IsTrackedSharpQuote => ret'[1].signal = <<>>
             /\ \A k \in Keys \ {TrackKey} : sharp_prices'[k] = sharp_prices[k]
       /\ ~TrackRuns => sharp_prices' = sharp_prices]_vars

\* a soft quote for Home got a signal while Away has a consensus too: the
\* cache is the one the call found
C30_Witness ==
    /\ TrackEnded
    /\ TrackBookmaker = Unibet
    /\ call.args[3] = "Home"
    /\ ret[1].signal # <<>>
    /\ ret[1].sharp_prices = sharp_prices
    /\ sharp_prices[<<"e1", "Away">>] # <<>>

====
